---- MODULE Spec2Model ----
(***************************************************************************)
(* Staged audio-enhancement pipeline of nanameru/stt-test, and the         *)
(* ElevenLabs client programs of scribe-v2-main (last part of the module). *)
(*                                                                         *)
(* One process of one of the five programs (variant) serves requests one   *)
(* after the other.  A request walks through its handler step by step:     *)
(* temp file, (format conversion,) denoise, dereverberation, VAD,          *)
(* transcription, diarization, cleanup.  The file system is a set of       *)
(* <<path, content>> pairs; a path is the sequence of the tokens of the    *)
(* file name, so that str.replace is computed as the code computes it.     *)
(***************************************************************************)
EXTENDS Integers, Sequences, FiniteSets, TLC

VARIABLES
    variant,     \* which program this process runs
    startup,     \* what happened to the pyannote load at process start
    pc,          \* position of the request in its handler
    job_input,   \* the request (job["input"] / TranscribeRequest)
    fs,          \* storage: set of <<path, content>>
    leaked,      \* an earlier request of this process left a file behind
    pipe,        \* handler-simple.py: the lazily loaded global pipeline
    loads,       \* handler-simple.py: the calls of transformers.pipeline so far
    loc,         \* the handler's local variables, by their names in the code
    pending,     \* return value or exception travelling through finally
    response,    \* what the caller received
    calls,       \* log of the calls into stages, engine and diarizer
    outcome,     \* how each stage of this request went
    conv,        \* server.py: how the format conversion went
    engine,      \* how the transcription engine went
    inside,      \* the shared model whose call the running request is in
    suspended,   \* the request that waits while this one runs
    running,          \* realtime_mic.py: the global flag that SIGINT clears
    all_transcripts,  \* scribe-v2-main: the transcripts the callbacks collected
    final_texts,      \* realtime_mic.py: the committed texts
    received          \* scribe-v2-main: the events the connection delivered so far

hist == <<calls, outcome, conv, engine>>

\* the state of the ElevenLabs client programs of scribe-v2-main
scribe == <<running, all_transcripts, final_texts, received>>

vars == <<variant, startup, pc, job_input, fs, leaked, pipe, loads, loc, pending, response, hist,
          inside, suspended, scribe>>

(***************************************************************************)
(* Programs                                                                *)
(***************************************************************************)
Variants == {"kotoba", "simple", "parakeet", "reazon", "server", "turbo"}

JobHandlers == {"kotoba", "simple", "parakeet", "reazon"}

ServerVariants == {"server", "turbo"}

StagedVariants == {"kotoba", "parakeet", "reazon"}

(***************************************************************************)
(* Paths and storage                                                       *)
(***************************************************************************)
NoPath == <<>>

\* mkstemp draws candidate names until one does not exist (O_EXCL); the
\* candidates of the model, in the order they are drawn
TmpNames == <<"tmpk3x9_a2b", "tmp7w_q04zm">>

RECURSIVE Replace(_, _, _)
Replace(path, old, new) ==
    IF path = <<>> THEN <<>>
    ELSE (IF Head(path) = old THEN new ELSE <<Head(path)>>)
         \o Replace(Tail(path), old, new)

\* tempfile.NamedTemporaryFile as it would be if it did not test whether the
\* name is taken
NamedTemporaryFile_NotExclusive(fsys, suffix) == <<TmpNames[1], suffix>>

NamedTemporaryFile(fsys, suffix) ==
    LET free == {i \in 1..Len(TmpNames) : \A e \in fsys : e[1] # <<TmpNames[i], suffix>>}
    IN  <<TmpNames[CHOOSE i \in free : \A j \in free : i <= j], suffix>>

Exists(fsys, p) == \E e \in fsys : e[1] = p

Read(fsys, p) == (CHOOSE e \in fsys : e[1] = p)[2]

Remove(fsys, p) == {e \in fsys : e[1] # p}

Write(fsys, p, c) == Remove(fsys, p) \cup {<<p, c>>}

\* os.remove of each path of a sequence, in order
RECURSIVE RemoveAll(_, _)
RemoveAll(paths, fsys) ==
    IF paths = <<>> THEN fsys
    ELSE RemoveAll(Tail(paths), Remove(fsys, Head(paths)))

\* the paths written between two states of the storage
Written(old, new) == {e[1] : e \in new \ old}

Paths(fsys) == {e[1] : e \in fsys}

(***************************************************************************)
(* Audio contents.  src tells whether the bytes are the raw upload or the  *)
(* output of the format normalizer, applied lists the enhancement stages   *)
(* the signal went through, whole is FALSE for a file whose write was      *)
(* interrupted.                                                            *)
(***************************************************************************)
RawUpload == [src |-> "raw", applied |-> <<>>, whole |-> TRUE]

Missing == [src |-> "missing", applied |-> <<>>, whole |-> FALSE]

Normalized(c) == [c EXCEPT !.src = "pcm"]

Enhanced(c, stage) == [c EXCEPT !.applied = Append(c.applied, stage)]

Truncated(c, stage) == [Enhanced(c, stage) EXCEPT !.whole = FALSE]

ReadOr(fsys, p) == IF Exists(fsys, p) THEN Read(fsys, p) ELSE Missing

(***************************************************************************)
(* Outcomes of the external calls                                          *)
(*   ok       the call returned                                            *)
(*   fail     the call raised before it wrote anything                     *)
(*   partial  the call created its output file and then raised             *)
(*   nospeech get_speech_timestamps returned the empty list                *)
(***************************************************************************)
StageOutcomes == {"ok", "fail", "partial"}

VadOutcomes == {"ok", "nospeech", "fail", "partial"}

StageChoices(fsys, p) == IF Exists(fsys, p) THEN StageOutcomes ELSE {"fail"}

VadChoices(fsys, p) == IF Exists(fsys, p) THEN VadOutcomes ELSE {"fail"}

EngineChoices(fsys, p) == IF Exists(fsys, p) THEN {"ok", "raise"} ELSE {"raise"}

Returned(p, fsys) == [ret |-> p, fs |-> fsys, raised |-> FALSE]

Raised(fsys) == [ret |-> NoPath, fs |-> fsys, raised |-> TRUE]

(***************************************************************************)
(* runpod-kotoba-whisper/handler.py: the stage functions                   *)
(***************************************************************************)
KotobaApplyDeepfilter(audio_path, fsys, o) ==
    LET replaced == Replace(audio_path, ".webm", <<"_denoised", ".wav">>)
        out == IF replaced = audio_path
               THEN audio_path \o <<"_denoised", ".wav">>
               ELSE replaced
        c == ReadOr(fsys, audio_path)
    IN  CASE o = "ok" -> Returned(out, Write(fsys, out, Enhanced(c, "denoise")))
          [] o = "partial" -> Returned(audio_path, Write(fsys, out, Truncated(c, "denoise")))
          [] OTHER -> Returned(audio_path, fsys)

KotobaApplyWpe(audio_path, fsys, o) ==
    LET replaced == Replace(audio_path, ".webm", <<"_dereverb", ".wav">>)
        out == IF replaced = audio_path
               THEN audio_path \o <<"_dereverb", ".wav">>
               ELSE replaced
        c == ReadOr(fsys, audio_path)
    IN  CASE o = "ok" -> Returned(out, Write(fsys, out, Enhanced(c, "dereverb")))
          [] o = "partial" -> Returned(audio_path, Write(fsys, out, Truncated(c, "dereverb")))
          [] OTHER -> Returned(audio_path, fsys)

KotobaApplyVad(audio_path, fsys, o) ==
    LET replaced == Replace(Replace(audio_path, ".webm", <<"_vad", ".wav">>),
                            ".wav", <<"_vad", ".wav">>)
        out == IF replaced = audio_path
               THEN audio_path \o <<"_vad", ".wav">>
               ELSE replaced
        c == ReadOr(fsys, audio_path)
    IN  CASE o = "nospeech" -> Returned(audio_path, fsys)
          [] o = "ok" -> Returned(out, Write(fsys, out, Enhanced(c, "vad")))
          [] o = "partial" -> Raised(Write(fsys, out, Truncated(c, "vad")))
          [] OTHER -> Raised(fsys)

(***************************************************************************)
(* runpod-parakeet/handler.py: the stage functions                         *)
(***************************************************************************)
ParakeetApplyDeepfilter(audio_path, fsys, o) ==
    LET out == Replace(audio_path, ".wav", <<"_denoised", ".wav">>)
        c == ReadOr(fsys, audio_path)
    IN  CASE o = "ok" -> Returned(out, Write(fsys, out, Enhanced(c, "denoise")))
          [] o = "partial" -> Returned(audio_path, Write(fsys, out, Truncated(c, "denoise")))
          [] OTHER -> Returned(audio_path, fsys)

\* apply_wpe as it would be if the except branch handed back the file it had begun
ApplyWpe_KeepsPartial(audio_path, fsys, o) ==
    LET out == Replace(audio_path, ".wav", <<"_dereverb", ".wav">>)
        c == ReadOr(fsys, audio_path)
    IN  CASE o = "ok" -> Returned(out, Write(fsys, out, Enhanced(c, "dereverb")))
          [] o = "partial" -> Returned(out, Write(fsys, out, Truncated(c, "dereverb")))
          [] OTHER -> Returned(audio_path, fsys)

ParakeetApplyWpe(audio_path, fsys, o) ==
    LET out == Replace(audio_path, ".wav", <<"_dereverb", ".wav">>)
        c == ReadOr(fsys, audio_path)
    IN  CASE o = "ok" -> Returned(out, Write(fsys, out, Enhanced(c, "dereverb")))
          [] o = "partial" -> Returned(audio_path, Write(fsys, out, Truncated(c, "dereverb")))
          [] OTHER -> Returned(audio_path, fsys)

\* apply_vad as it would be without the `if not speech_timestamps` return
ApplyVad_WritesEmpty(audio_path, fsys, o) ==
    LET out == Replace(audio_path, ".wav", <<"_vad", ".wav">>)
        c == ReadOr(fsys, audio_path)
    IN  CASE o = "nospeech" -> Returned(out, Write(fsys, out, Truncated(c, "vad")))
          [] o = "ok" -> Returned(out, Write(fsys, out, Enhanced(c, "vad")))
          [] o = "partial" -> Returned(audio_path, Write(fsys, out, Truncated(c, "vad")))
          [] OTHER -> Returned(audio_path, fsys)

ParakeetApplyVad(audio_path, fsys, o) ==
    LET out == Replace(audio_path, ".wav", <<"_vad", ".wav">>)
        c == ReadOr(fsys, audio_path)
    IN  CASE o = "nospeech" -> Returned(audio_path, fsys)
          [] o = "ok" -> Returned(out, Write(fsys, out, Enhanced(c, "vad")))
          [] o = "partial" -> Returned(audio_path, Write(fsys, out, Truncated(c, "vad")))
          [] OTHER -> Returned(audio_path, fsys)

(***************************************************************************)
(* runpod-reazonspeech/handler.py and python-server/server.py: the same    *)
(* stage functions, copied                                                 *)
(***************************************************************************)
ReazonApplyDeepfilter(audio_path, fsys, o) == ParakeetApplyDeepfilter(audio_path, fsys, o)

ReazonApplyWpe(audio_path, fsys, o) == ParakeetApplyWpe(audio_path, fsys, o)

ReazonApplyVad(audio_path, fsys, o) == ParakeetApplyVad(audio_path, fsys, o)

ServerApplyDeepfilter(audio_path, fsys, o) == ParakeetApplyDeepfilter(audio_path, fsys, o)

ServerApplyWpe(audio_path, fsys, o) == ParakeetApplyWpe(audio_path, fsys, o)

(***************************************************************************)
(* Process start: the pyannote pipeline                                    *)
(*   no_token     HF_TOKEN is empty                                        *)
(*   load_failed  Pipeline.from_pretrained raised                          *)
(*   loaded       Pipeline.from_pretrained returned a pipeline             *)
(***************************************************************************)
Startups == {"no_token", "load_failed", "loaded"}

\* handler.py reads `device` (line 49) before its assignment (line 61): the
\* NameError is caught by the except of line 55.
KotobaStartup(s) == FALSE

ParakeetStartup(s) == s = "loaded"

ReazonStartup(s) == s = "loaded"

ServerStartup(s) == s = "loaded"

\* TRUE iff diarization_pipeline is not None
diarization_pipeline ==
    CASE variant = "kotoba" -> KotobaStartup(startup)
      [] variant = "parakeet" -> ParakeetStartup(startup)
      [] variant = "reazon" -> ReazonStartup(startup)
      [] variant \in ServerVariants -> ServerStartup(startup)
      [] OTHER -> FALSE

(***************************************************************************)
(* Requests                                                                *)
(***************************************************************************)
\* audio_base64 is TRUE iff the field is present and not empty
JobInputs ==
    [audio_base64 : BOOLEAN, enable_denoise : BOOLEAN,
     enable_dereverberation : BOOLEAN, enable_vad : BOOLEAN,
     enable_diarization : BOOLEAN]

\* handler-simple.py and server.py read none of the enable_ options
PlainInputs ==
    {j \in JobInputs : ~j.enable_denoise /\ ~j.enable_dereverberation
                       /\ ~j.enable_vad /\ ~j.enable_diarization}

\* job["input"] of runpod-kotoba-whisper/handler.py as the dict it is: a
\* request can leave out any of the optional keys.  The requests of the model
\* give all of them, one of them, or none.
OptionalKeys ==
    {"language", "task", "enable_denoise", "enable_dereverberation", "enable_vad",
     "enable_diarization"}

FullJobs ==
    {[language |-> lt[1], task |-> lt[2], enable_denoise |-> dn,
      enable_dereverberation |-> dr, enable_vad |-> vd, enable_diarization |-> di] :
        lt \in {<<"ja", "transcribe">>, <<"en", "translate">>},
        dn \in BOOLEAN, dr \in BOOLEAN, vd \in BOOLEAN, di \in BOOLEAN}

GivenSets == {OptionalKeys, {}} \cup {{k} : k \in OptionalKeys}

KotobaJobs == {[k \in g |-> d[k]] : d \in FullJobs, g \in GivenSets}

\* dict.get(key, default)
Get(d, key, default) == IF key \in DOMAIN d THEN d[key] ELSE default

\* the handler as it would be if it ran the diarizer unless told not to and
\* skipped the VAD unless asked for it
KotobaParameters_OtherDefaults(d, audio) ==
    [audio_base64 |-> audio,
     language |-> Get(d, "language", "ja"),
     task |-> Get(d, "task", "transcribe"),
     enable_denoise |-> Get(d, "enable_denoise", TRUE),
     enable_dereverberation |-> Get(d, "enable_dereverberation", TRUE),
     enable_vad |-> Get(d, "enable_vad", FALSE),
     enable_diarization |-> Get(d, "enable_diarization", TRUE),
     given |-> DOMAIN d]

\* the parameters the handler reads from the dict; given remembers the keys
\* the dict had
KotobaParameters(d, audio) ==
    [audio_base64 |-> audio,
     language |-> Get(d, "language", "ja"),
     task |-> Get(d, "task", "transcribe"),
     enable_denoise |-> Get(d, "enable_denoise", TRUE),
     enable_dereverberation |-> Get(d, "enable_dereverberation", TRUE),
     enable_vad |-> Get(d, "enable_vad", TRUE),
     enable_diarization |-> Get(d, "enable_diarization", FALSE),
     given |-> DOMAIN d]

NoInput ==
    [audio_base64 |-> FALSE, enable_denoise |-> FALSE,
     enable_dereverberation |-> FALSE, enable_vad |-> FALSE,
     enable_diarization |-> FALSE]

NoText == Missing

InitLoc ==
    [temp_audio_path |-> NoPath, wav_file_path |-> NoPath,
     denoised_path |-> NoPath, dereverb_path |-> NoPath,
     vad_filtered_path |-> NoPath, audio_to_transcribe |-> NoPath,
     files_to_cleanup |-> <<>>,
     denoise_applied |-> FALSE, dereverb_applied |-> FALSE,
     vad_applied |-> FALSE,
     transcription |-> NoText, chunks |-> <<>>, diarization |-> <<>>,
     segments |-> <<>>, transcription_text |-> <<>>, result_chunks |-> <<>>]

\* cleanup is "skip" until the cleanup code ran, then "ok" or "raise";
\* removed lists the paths os.remove / os.unlink deleted, in order; created
\* is the set of the paths the request wrote; load is how load_model went
\* ("cached": pipe was there, "ok" / "raise": transformers.pipeline was called)
NoOutcome ==
    [denoise |-> "skip", dereverb |-> "skip", vad |-> "skip", diar |-> "skip",
     cleanup |-> "skip", removed |-> <<>>, created |-> {}, load |-> "skip"]

NoResponse == [kind |-> "none"]

\* The global pipe is None or the pipeline object that load_model made.
\* The objects are told apart by the call of transformers.pipeline that made
\* them: pipe = n is the object of the n-th call.  The count of the calls
\* stops at MaxLoads.
NoPipe == 0

MaxLoads == 2

Counted(n) == IF n < MaxLoads THEN n + 1 ELSE n

\* the error response as it would be if it carried the text and the flags
\* the handler has computed so far
ErrorResponse_WithPartial(msg) ==
    [kind |-> "error", error |-> msg, transcription |-> loc.transcription,
     denoise_applied |-> loc.denoise_applied, dereverb_applied |-> loc.dereverb_applied]

ErrorResponse(msg) == [kind |-> "error", error |-> msg]

\* the state of one request: what the variables of the same names hold
\* while the request runs
IdleFrame ==
    [pc |-> "idle", job_input |-> NoInput, loc |-> InitLoc, pending |-> NoResponse,
     response |-> NoResponse, calls |-> <<>>, outcome |-> NoOutcome,
     conv |-> "none", engine |-> "none", inside |-> "none"]

Call(fn, arg, ret, fsys) ==
    [fn |-> fn, arg |-> arg, ret |-> ret, content |-> ReadOr(fsys, arg)]

(***************************************************************************)
(* The transcription engines and the diarizer                              *)
(***************************************************************************)
\* Decoding is deterministic (do_sample=False / beam search): the text is a
\* function of the audio the engine is given.
NoneTs == -1

EngineChunks ==
    {<<>>,
     <<[text |-> "a", timestamp |-> <<0, 2>>],
       [text |-> "b", timestamp |-> <<2, NoneTs>>]>>}

\* faster-whisper: the texts of the segments model.transcribe yields, as
\* sequences of characters.  A decoded segment can be empty, and can begin
\* or end with a blank.
MaxSegments == 2

SegmentTexts == {<<>>, <<"a">>, <<" ", "b">>, <<"a", " ">>}

EngineSegments == UNION {[1..n -> SegmentTexts] : n \in 0..MaxSegments}

\* the loop as it would be if it put each text in front of the others
RECURSIVE TranscriptionText_Reversed(_)
TranscriptionText_Reversed(segments) ==
    IF segments = <<>> THEN <<>>
    ELSE segments[Len(segments)] \o <<" ">>
           \o TranscriptionText_Reversed(SubSeq(segments, 1, Len(segments) - 1))

\* transcription_text = ""; for segment in segments:
\*     transcription_text += segment.text + " "
RECURSIVE TranscriptionText(_)
TranscriptionText(segments) ==
    IF segments = <<>> THEN <<>>
    ELSE TranscriptionText(SubSeq(segments, 1, Len(segments) - 1))
           \o segments[Len(segments)] \o <<" ">>

\* str.lstrip, str.rstrip and str.strip
RECURSIVE LStrip(_)
LStrip(s) == IF s # <<>> /\ Head(s) = " " THEN LStrip(Tail(s)) ELSE s

RECURSIVE RStrip(_)
RStrip(s) ==
    IF s # <<>> /\ s[Len(s)] = " " THEN RStrip(SubSeq(s, 1, Len(s) - 1)) ELSE s

Strip(s) == RStrip(LStrip(s))

Truthy(x) == x # NoneTs /\ x # 0

KotobaChunk(chunk) ==
    [text |-> chunk.text,
     start |-> IF Truthy(chunk.timestamp[1]) THEN chunk.timestamp[1] ELSE 0,
     end |-> IF Truthy(chunk.timestamp[2]) THEN chunk.timestamp[2] ELSE 0]

KotobaChunks(cs) == [i \in 1..Len(cs) |-> KotobaChunk(cs[i])]

\* Speaker turns as diarization.itertracks(yield_label=True) yields them,
\* times in milliseconds.  pyannote keeps the tracks of an Annotation in a
\* timeline sorted by (start, end) and holds no empty segment, so the turns
\* come in chronological order with start < end; overlapping speech gives
\* turns of two speakers that share their start.
MaxTurns == 2

\* 0.005 s is rounded to 0.0 and 1.235 s to 1.24 (ties go to the even
\* hundredth), 1.236 s to 1.24
TurnTimes == {5, 1235, 1236}

Speakers == {"SPEAKER_00", "SPEAKER_01"}

Turns == {t \in [speaker : Speakers, start : TurnTimes, end : TurnTimes] : t.start < t.end}

Chronological(ts) ==
    \A i \in 1..(Len(ts) - 1) :
        \/ ts[i].start < ts[i + 1].start
        \/ ts[i].start = ts[i + 1].start /\ ts[i].end <= ts[i + 1].end

DiarizerTurns ==
    {ts \in UNION {[1..n -> Turns] : n \in 0..MaxTurns} : Chronological(ts)}

\* round(x, 2) of a time in seconds, as hundredths of a second
Round2(ms) ==
    LET q == ms \div 10
        r == ms % 10
    IN  IF r > 5 \/ (r = 5 /\ q % 2 = 1) THEN q + 1 ELSE q

\* the loop as it would be if it put each new segment in front of the list
Segments_Prepended(turns) ==
    [i \in 1..Len(turns) |->
        [speaker |-> turns[Len(turns) + 1 - i].speaker,
         start |-> Round2(turns[Len(turns) + 1 - i].start),
         end |-> Round2(turns[Len(turns) + 1 - i].end)]]

Segments(turns) ==
    [i \in 1..Len(turns) |->
        [speaker |-> turns[i].speaker,
         start |-> Round2(turns[i].start),
         end |-> Round2(turns[i].end)]]

\* apply_diarization as it would be if its except clause returned the
\* segments instead of the empty list
ApplyDiarization_KeepsSegments(available, turns, o) ==
    IF ~available THEN <<>> ELSE Segments(turns)

\* apply_diarization: o is "ok" or "raise", the outcome of the diarizer
ApplyDiarization(available, turns, o) ==
    IF ~available THEN <<>>
    ELSE IF o = "ok" THEN Segments(turns) ELSE <<>>

KotobaApplyDiarization(turns, o) == ApplyDiarization(diarization_pipeline, turns, o)

ParakeetApplyDiarization(turns, o) == ApplyDiarization(diarization_pipeline, turns, o)

ReazonApplyDiarization(turns, o) == ApplyDiarization(diarization_pipeline, turns, o)

DiarChoices == IF diarization_pipeline THEN {"ok", "raise"} ELSE {"unavailable"}

DiarCalls(path, fsys) ==
    <<Call("apply_diarization", path, NoPath, fsys)>>
    \o (IF diarization_pipeline
        THEN <<Call("diarization_pipeline", path, NoPath, fsys)>>
        ELSE <<>>)

(***************************************************************************)
(* Initial state                                                           *)
(***************************************************************************)
Init ==
    /\ variant \in Variants
    /\ startup \in (IF variant = "simple" THEN {"no_token"} ELSE Startups)
    /\ pc = "idle"
    /\ job_input = NoInput
    /\ fs = {}
    /\ leaked = FALSE
    /\ pipe = NoPipe
    /\ loads = 0
    /\ loc = InitLoc
    /\ pending = NoResponse
    /\ response = NoResponse
    /\ calls = <<>>
    /\ outcome = NoOutcome
    /\ conv = "none"
    /\ engine = "none"
    /\ inside = "none"
    /\ suspended = IdleFrame
    /\ running = TRUE
    /\ all_transcripts = <<>>
    /\ final_texts = <<>>
    /\ received = <<>>

(***************************************************************************)
(* runpod-kotoba-whisper/handler.py: handler                               *)
(***************************************************************************)
KotobaReceive ==
    /\ variant = "kotoba" /\ pc = "idle"
    /\ \E d \in KotobaJobs, audio \in BOOLEAN :
        LET j == KotobaParameters(d, audio) IN
        /\ job_input' = j
        /\ IF ~j.audio_base64
           THEN /\ response' = ErrorResponse("No audio_base64 provided")
                /\ pc' = "done"
                /\ UNCHANGED <<fs, loc, outcome>>
           ELSE LET p == NamedTemporaryFile(fs, ".webm") IN
                /\ fs' = Write(fs, p, RawUpload)
                /\ outcome' = [outcome EXCEPT !.created = {p}]
                /\ loc' = [loc EXCEPT !.temp_audio_path = p,
                                      !.audio_to_transcribe = p]
                /\ pc' = "saved"
                /\ UNCHANGED response
    /\ inside' = "none"
    /\ UNCHANGED <<scribe, suspended, variant, startup, leaked, pipe, loads, pending, calls, conv, engine>>

\* the denoise step as it would be if it did not test enable_denoise
KotobaDenoise_Always ==
    /\ variant = "kotoba" /\ pc = "saved"
    /\ \E o \in StageChoices(fs, loc.temp_audio_path) :
        LET r == KotobaApplyDeepfilter(loc.temp_audio_path, fs, o) IN
        /\ fs' = r.fs
        /\ loc' = IF r.ret # loc.temp_audio_path
                  THEN [loc EXCEPT !.denoised_path = r.ret,
                                   !.audio_to_transcribe = r.ret,
                                   !.denoise_applied = TRUE]
                  ELSE [loc EXCEPT !.denoised_path = r.ret]
        /\ calls' = Append(calls, Call("apply_deepfilter", loc.temp_audio_path, r.ret, fs))
        /\ outcome' = [outcome EXCEPT !.denoise = o,
                                              !.created = @ \cup Written(fs, r.fs)]
    /\ pc' = "denoised"
    /\ inside' = "none"
    /\ UNCHANGED <<scribe, suspended, variant, startup, job_input, leaked, pipe, loads, pending, response, conv, engine>>

KotobaDenoise ==
    /\ variant = "kotoba" /\ pc = "saved"
    /\ IF job_input.enable_denoise
       THEN \E o \in StageChoices(fs, loc.temp_audio_path) :
              LET r == KotobaApplyDeepfilter(loc.temp_audio_path, fs, o) IN
              /\ fs' = r.fs
              /\ loc' = IF r.raised THEN loc
                        ELSE IF r.ret # loc.temp_audio_path
                        THEN [loc EXCEPT !.denoised_path = r.ret,
                                         !.audio_to_transcribe = r.ret,
                                         !.denoise_applied = TRUE]
                        ELSE [loc EXCEPT !.denoised_path = r.ret]
              /\ calls' = Append(calls, Call("apply_deepfilter", loc.temp_audio_path, r.ret, fs))
              /\ outcome' = [outcome EXCEPT !.denoise = o,
                                              !.created = @ \cup Written(fs, r.fs)]
       ELSE UNCHANGED <<fs, loc, calls, outcome>>
    /\ pc' = "denoised"
    /\ inside' = "none"
    /\ UNCHANGED <<scribe, suspended, variant, startup, job_input, leaked, pipe, loads, pending, response, conv, engine>>

\* the dereverberation step as it would be if it read temp_audio_path
KotobaDereverb_FromOriginal ==
    /\ variant = "kotoba" /\ pc = "denoised"
    /\ IF job_input.enable_dereverberation
       THEN \E o \in StageChoices(fs, loc.temp_audio_path) :
              LET r == KotobaApplyWpe(loc.temp_audio_path, fs, o) IN
              /\ fs' = r.fs
              /\ loc' = IF r.ret # loc.temp_audio_path
                        THEN [loc EXCEPT !.dereverb_path = r.ret,
                                         !.audio_to_transcribe = r.ret,
                                         !.dereverb_applied = TRUE]
                        ELSE [loc EXCEPT !.dereverb_path = r.ret]
              /\ calls' = Append(calls, Call("apply_wpe", loc.temp_audio_path, r.ret, fs))
              /\ outcome' = [outcome EXCEPT !.dereverb = o,
                                              !.created = @ \cup Written(fs, r.fs)]
       ELSE UNCHANGED <<fs, loc, calls, outcome>>
    /\ pc' = "dereverbed"
    /\ inside' = "none"
    /\ UNCHANGED <<scribe, suspended, variant, startup, job_input, leaked, pipe, loads, pending, response, conv, engine>>

\* the dereverberation step as it would be if a failure sent the chain back
\* to the original audio
KotobaDereverb_StartsOver ==
    /\ variant = "kotoba" /\ pc = "denoised"
    /\ IF job_input.enable_dereverberation
       THEN \E o \in StageChoices(fs, loc.audio_to_transcribe) :
              LET r == KotobaApplyWpe(loc.audio_to_transcribe, fs, o) IN
              /\ fs' = r.fs
              /\ loc' = IF r.raised THEN loc
                        ELSE IF r.ret # loc.audio_to_transcribe
                        THEN [loc EXCEPT !.dereverb_path = r.ret,
                                         !.audio_to_transcribe = r.ret,
                                         !.dereverb_applied = TRUE]
                        ELSE [loc EXCEPT !.dereverb_path = r.ret,
                                         !.audio_to_transcribe = loc.temp_audio_path,
                                         !.denoise_applied = FALSE]
              /\ calls' = Append(calls, Call("apply_wpe", loc.audio_to_transcribe, r.ret, fs))
              /\ outcome' = [outcome EXCEPT !.dereverb = o,
                                              !.created = @ \cup Written(fs, r.fs)]
       ELSE UNCHANGED <<fs, loc, calls, outcome>>
    /\ pc' = "dereverbed"
    /\ inside' = "none"
    /\ UNCHANGED <<scribe, suspended, variant, startup, job_input, leaked, pipe, loads, pending, response, conv, engine>>

KotobaDereverb ==
    /\ variant = "kotoba" /\ pc = "denoised"
    /\ IF job_input.enable_dereverberation
       THEN \E o \in StageChoices(fs, loc.audio_to_transcribe) :
              LET r == KotobaApplyWpe(loc.audio_to_transcribe, fs, o) IN
              /\ fs' = r.fs
              /\ loc' = IF r.raised THEN loc
                        ELSE IF r.ret # loc.audio_to_transcribe
                        THEN [loc EXCEPT !.dereverb_path = r.ret,
                                         !.audio_to_transcribe = r.ret,
                                         !.dereverb_applied = TRUE]
                        ELSE [loc EXCEPT !.dereverb_path = r.ret]
              /\ calls' = Append(calls, Call("apply_wpe", loc.audio_to_transcribe, r.ret, fs))
              /\ outcome' = [outcome EXCEPT !.dereverb = o,
                                              !.created = @ \cup Written(fs, r.fs)]
       ELSE UNCHANGED <<fs, loc, calls, outcome>>
    /\ pc' = "dereverbed"
    /\ inside' = "none"
    /\ UNCHANGED <<scribe, suspended, variant, startup, job_input, leaked, pipe, loads, pending, response, conv, engine>>

\* the VAD step as it would be without its try/except
KotobaVad_Unguarded ==
    /\ variant = "kotoba" /\ pc = "dereverbed"
    /\ IF job_input.enable_vad
       THEN \E o \in VadChoices(fs, loc.audio_to_transcribe) :
              LET r == KotobaApplyVad(loc.audio_to_transcribe, fs, o) IN
              /\ fs' = r.fs
              /\ calls' = Append(calls, Call("apply_vad", loc.audio_to_transcribe, r.ret, fs))
              /\ outcome' = [outcome EXCEPT !.vad = o,
                                              !.created = @ \cup Written(fs, r.fs)]
              /\ IF r.raised
                 THEN /\ pending' = ErrorResponse("apply_vad")
                      /\ pc' = "finally"
                      /\ UNCHANGED loc
                 ELSE /\ loc' = IF r.ret # loc.audio_to_transcribe
                                THEN [loc EXCEPT !.vad_filtered_path = r.ret,
                                                 !.audio_to_transcribe = r.ret,
                                                 !.vad_applied = TRUE]
                                ELSE [loc EXCEPT !.vad_filtered_path = r.ret]
                      /\ pc' = "vadded"
                      /\ UNCHANGED pending
       ELSE /\ pc' = "vadded"
            /\ UNCHANGED <<fs, loc, calls, outcome, pending>>
    /\ inside' = "none"
    /\ UNCHANGED <<scribe, suspended, variant, startup, job_input, leaked, pipe, loads, response, conv, engine>>

KotobaVad ==
    /\ variant = "kotoba" /\ pc = "dereverbed"
    /\ IF job_input.enable_vad
       THEN \E o \in VadChoices(fs, loc.audio_to_transcribe) :
              LET r == KotobaApplyVad(loc.audio_to_transcribe, fs, o) IN
              /\ fs' = r.fs
              /\ loc' = IF r.raised THEN loc
                        ELSE IF r.ret # loc.audio_to_transcribe
                        THEN [loc EXCEPT !.vad_filtered_path = r.ret,
                                         !.audio_to_transcribe = r.ret,
                                         !.vad_applied = TRUE]
                        ELSE [loc EXCEPT !.vad_filtered_path = r.ret]
              /\ calls' = Append(calls, Call("apply_vad", loc.audio_to_transcribe, r.ret, fs))
              /\ outcome' = [outcome EXCEPT !.vad = o,
                                              !.created = @ \cup Written(fs, r.fs)]
       ELSE UNCHANGED <<fs, loc, calls, outcome>>
    /\ pc' = "vadded"
    /\ inside' = "none"
    /\ UNCHANGED <<scribe, suspended, variant, startup, job_input, leaked, pipe, loads, pending, response, conv, engine>>

KotobaTranscribe ==
    /\ variant = "kotoba" /\ pc = "vadded"
    /\ calls' = Append(calls, [fn |-> "transcribe", arg |-> loc.audio_to_transcribe,
                               ret |-> NoPath,
                               content |-> ReadOr(fs, loc.audio_to_transcribe),
                               language |-> job_input.language,
                               task |-> job_input.task])
    /\ \E o \in EngineChoices(fs, loc.audio_to_transcribe) :
        /\ engine' = o
        /\ IF o = "ok"
           THEN \E cs \in EngineChunks :
                  /\ loc' = [loc EXCEPT !.transcription = Read(fs, loc.audio_to_transcribe),
                                        !.result_chunks = cs,
                                        !.chunks = KotobaChunks(cs)]
                  /\ pc' = "transcribed"
                  /\ UNCHANGED pending
           ELSE /\ pending' = ErrorResponse("engine")
                /\ pc' = "finally"
                /\ UNCHANGED loc
    /\ inside' = "none"
    /\ UNCHANGED <<scribe, suspended, variant, startup, job_input, fs, leaked, pipe, loads, response, outcome, conv>>

KotobaDiarize ==
    /\ variant = "kotoba" /\ pc = "transcribed"
    /\ IF job_input.enable_diarization
       THEN \E o \in DiarChoices, turns \in DiarizerTurns :
              LET d == KotobaApplyDiarization(turns, o) IN
              /\ loc' = [loc EXCEPT !.diarization = d]
              /\ calls' = calls \o DiarCalls(loc.temp_audio_path, fs)
              /\ outcome' = [outcome EXCEPT !.diar = o]
              /\ pending' = [kind |-> "ok",
                             transcription |-> loc.transcription,
                             language |-> "ja",
                             model |-> "kotoba-whisper-v2.2",
                             denoise_applied |-> loc.denoise_applied,
                             dereverb_applied |-> loc.dereverb_applied,
                             vad_applied |-> loc.vad_applied,
                             chunks |-> loc.chunks,
                             diarization |-> d]
       ELSE /\ pending' = [kind |-> "ok",
                           transcription |-> loc.transcription,
                           language |-> "ja",
                           model |-> "kotoba-whisper-v2.2",
                           denoise_applied |-> loc.denoise_applied,
                           dereverb_applied |-> loc.dereverb_applied,
                           vad_applied |-> loc.vad_applied,
                           chunks |-> loc.chunks,
                           diarization |-> <<>>]
            /\ UNCHANGED <<loc, calls, outcome>>
    /\ pc' = "finally"
    /\ inside' = "none"
    /\ UNCHANGED <<scribe, suspended, variant, startup, job_input, fs, leaked, pipe, loads, response, conv, engine>>

KotobaCleanup(l, fsys) ==
    LET f1 == IF Exists(fsys, l.temp_audio_path)
              THEN Remove(fsys, l.temp_audio_path) ELSE fsys
        f2 == IF l.denoised_path # NoPath /\ Exists(f1, l.denoised_path)
                 /\ l.denoised_path # l.temp_audio_path
              THEN Remove(f1, l.denoised_path) ELSE f1
        f3 == IF l.dereverb_path # NoPath /\ Exists(f2, l.dereverb_path)
                 /\ l.dereverb_path # l.denoised_path
              THEN Remove(f2, l.dereverb_path) ELSE f2
        f4 == IF l.vad_filtered_path # NoPath /\ Exists(f3, l.vad_filtered_path)
                 /\ l.vad_filtered_path # l.dereverb_path
              THEN Remove(f3, l.vad_filtered_path) ELSE f3
    IN  f4

\* the paths the finally block calls os.remove on, in order
KotobaRemovals(l, fsys) ==
    LET r1 == IF Exists(fsys, l.temp_audio_path) THEN <<l.temp_audio_path>> ELSE <<>>
        r2 == IF l.denoised_path # NoPath /\ Exists(RemoveAll(r1, fsys), l.denoised_path)
                 /\ l.denoised_path # l.temp_audio_path
              THEN Append(r1, l.denoised_path) ELSE r1
        r3 == IF l.dereverb_path # NoPath /\ Exists(RemoveAll(r2, fsys), l.dereverb_path)
                 /\ l.dereverb_path # l.denoised_path
              THEN Append(r2, l.dereverb_path) ELSE r2
        r4 == IF l.vad_filtered_path # NoPath /\ Exists(RemoveAll(r3, fsys), l.vad_filtered_path)
                 /\ l.vad_filtered_path # l.dereverb_path
              THEN Append(r3, l.vad_filtered_path) ELSE r3
    IN  r4

\* the handler as it would be if the finally block waited for
\* temp_audio_path to be released before removing it (a retry loop around
\* os.remove that never gets through)
KotobaFinally_WaitsForFile ==
    /\ variant = "kotoba" /\ pc = "finally"
    /\ ~Exists(fs, loc.temp_audio_path)
    /\ fs' = KotobaCleanup(loc, fs)
    /\ outcome' = [outcome EXCEPT !.cleanup = "ok", !.removed = KotobaRemovals(loc, fs)]
    /\ response' = pending
    /\ pc' = "done"
    /\ inside' = "none"
    /\ UNCHANGED <<scribe, suspended, variant, startup, job_input, leaked, pipe, loads, loc, pending, calls, conv, engine>>

KotobaFinally ==
    /\ variant = "kotoba" /\ pc = "finally"
    /\ fs' = KotobaCleanup(loc, fs)
    /\ outcome' = [outcome EXCEPT !.cleanup = "ok", !.removed = KotobaRemovals(loc, fs)]
    /\ response' = pending
    /\ pc' = "done"
    /\ inside' = "none"
    /\ UNCHANGED <<scribe, suspended, variant, startup, job_input, leaked, pipe, loads, loc, pending, calls, conv, engine>>

(***************************************************************************)
(* runpod-kotoba-whisper/handler-simple.py                                 *)
(***************************************************************************)
\* load_model as it would be without the test `if pipe is None`
LoadModel_Always(p, n, o) ==
    IF o \in {"ok", "cached"}
    THEN [pipe |-> Counted(n), loads |-> Counted(n), raised |-> FALSE]
    ELSE [pipe |-> p, loads |-> Counted(n), raised |-> TRUE]

\* load_model as it would be if it set pipe before the pipeline is built
\* (pipe = object(); pipe = pipeline(...)): a failed load leaves pipe set
LoadModel_KeepsFailed(p, n, o) ==
    IF p # NoPipe THEN [pipe |-> p, loads |-> n, raised |-> FALSE]
    ELSE IF o = "ok" THEN [pipe |-> Counted(n), loads |-> Counted(n), raised |-> FALSE]
    ELSE [pipe |-> Counted(n), loads |-> Counted(n), raised |-> TRUE]

\* load_model: p is the global pipe, n the calls of transformers.pipeline so
\* far, o the outcome of transformers.pipeline(...) when it has to be called
LoadModel(p, n, o) ==
    IF p # NoPipe THEN [pipe |-> p, loads |-> n, raised |-> FALSE]
    ELSE IF o = "ok" THEN [pipe |-> Counted(n), loads |-> Counted(n), raised |-> FALSE]
    ELSE [pipe |-> NoPipe, loads |-> Counted(n), raised |-> TRUE]

LoadChoices == IF pipe # NoPipe THEN {"cached"} ELSE {"ok", "raise"}

SimpleReceive ==
    /\ variant = "simple" /\ pc = "idle"
    /\ \E j \in PlainInputs :
        /\ job_input' = j
        /\ IF ~j.audio_base64
           THEN /\ response' = ErrorResponse("No audio_base64 provided")
                /\ pc' = "done"
                /\ UNCHANGED <<fs, loc, outcome>>
           ELSE LET p == NamedTemporaryFile(fs, ".webm") IN
                /\ fs' = Write(fs, p, RawUpload)
                /\ outcome' = [outcome EXCEPT !.created = {p}]
                /\ loc' = [loc EXCEPT !.temp_audio_path = p]
                /\ pc' = "saved"
                /\ UNCHANGED response
    /\ inside' = "none"
    /\ UNCHANGED <<scribe, suspended, variant, startup, leaked, pipe, loads, pending, calls, conv, engine>>

SimpleTranscribe ==
    /\ variant = "simple" /\ pc = "saved"
    /\ \E lo \in LoadChoices :
        LET m == LoadModel(pipe, loads, lo) IN
        /\ pipe' = m.pipe
        /\ loads' = m.loads
        /\ outcome' = [outcome EXCEPT !.load = lo]
        /\ IF m.raised
           THEN /\ pending' = ErrorResponse("load_model")
                /\ UNCHANGED <<loc, calls, engine>>
           ELSE /\ calls' = Append(calls, [fn |-> "transcribe", arg |-> loc.temp_audio_path,
                                           ret |-> NoPath,
                                           content |-> ReadOr(fs, loc.temp_audio_path),
                                           model |-> m.pipe])
                /\ \E o \in EngineChoices(fs, loc.temp_audio_path) :
                    /\ engine' = o
                    /\ IF o = "ok"
                       THEN /\ loc' = [loc EXCEPT !.transcription = Read(fs, loc.temp_audio_path)]
                            /\ pending' = [kind |-> "ok",
                                           transcription |-> Read(fs, loc.temp_audio_path),
                                           language |-> "ja",
                                           model |-> "kotoba-whisper-v2.2"]
                       ELSE /\ pending' = ErrorResponse("engine")
                            /\ UNCHANGED loc
    /\ pc' = "finally"
    /\ inside' = "none"
    /\ UNCHANGED <<scribe, suspended, variant, startup, job_input, fs, leaked, response, conv>>

SimpleCleanup(l, fsys) ==
    IF Exists(fsys, l.temp_audio_path) THEN Remove(fsys, l.temp_audio_path) ELSE fsys

SimpleRemovals(l, fsys) ==
    IF Exists(fsys, l.temp_audio_path) THEN <<l.temp_audio_path>> ELSE <<>>

SimpleFinally ==
    /\ variant = "simple" /\ pc = "finally"
    /\ fs' = SimpleCleanup(loc, fs)
    /\ outcome' = [outcome EXCEPT !.cleanup = "ok", !.removed = SimpleRemovals(loc, fs)]
    /\ response' = pending
    /\ pc' = "done"
    /\ inside' = "none"
    /\ UNCHANGED <<scribe, suspended, variant, startup, job_input, leaked, pipe, loads, loc, pending, calls, conv, engine>>

(***************************************************************************)
(* runpod-parakeet/handler.py and runpod-reazonspeech/handler.py: the two  *)
(* handlers share the body of their try block                              *)
(***************************************************************************)
\* the stage function `fn` of the program that runs
ChainApply(fn, audio_path, fsys, o) ==
    CASE variant = "parakeet" /\ fn = "apply_deepfilter" -> ParakeetApplyDeepfilter(audio_path, fsys, o)
      [] variant = "parakeet" /\ fn = "apply_wpe" -> ParakeetApplyWpe(audio_path, fsys, o)
      [] variant = "parakeet" /\ fn = "apply_vad" -> ParakeetApplyVad(audio_path, fsys, o)
      [] variant = "reazon" /\ fn = "apply_deepfilter" -> ReazonApplyDeepfilter(audio_path, fsys, o)
      [] variant = "reazon" /\ fn = "apply_wpe" -> ReazonApplyWpe(audio_path, fsys, o)
      [] variant = "reazon" /\ fn = "apply_vad" -> ReazonApplyVad(audio_path, fsys, o)

ChainApplyDiarization(turns, o) ==
    IF variant = "parakeet" THEN ParakeetApplyDiarization(turns, o)
    ELSE ReazonApplyDiarization(turns, o)

\* if enable_X: X_path = apply_X(current_path); if X_path != current_path: ...
ChainStage(enabled, choices, fn, stage, field, next) ==
    /\ IF enabled
       THEN \E o \in choices :
              LET r == ChainApply(fn, loc.audio_to_transcribe, fs, o) IN
              /\ fs' = r.fs
              /\ loc' = IF r.ret # loc.audio_to_transcribe
                        THEN [loc EXCEPT ![field] = r.ret,
                                         !.files_to_cleanup = Append(@, r.ret),
                                         !.audio_to_transcribe = r.ret]
                        ELSE [loc EXCEPT ![field] = r.ret]
              /\ calls' = Append(calls, Call(fn, loc.audio_to_transcribe, r.ret, fs))
              /\ outcome' = [outcome EXCEPT ![stage] = o,
                                              !.created = @ \cup Written(fs, r.fs)]
       ELSE UNCHANGED <<fs, loc, calls, outcome>>
    /\ pc' = next
    /\ inside' = "none"
    /\ UNCHANGED <<scribe, suspended, variant, startup, job_input, leaked, pipe, loads, pending, response, conv, engine>>

\* the handler as it would be if it removed the files of files_to_cleanup
\* as soon as the engine has returned, before the diarizer runs
ChainTranscribe_CleansEarly ==
    /\ calls' = Append(calls, Call("transcribe", loc.audio_to_transcribe, NoPath, fs))
    /\ \E o \in EngineChoices(fs, loc.audio_to_transcribe) :
        /\ engine' = o
        /\ IF o = "ok"
           THEN /\ loc' = [loc EXCEPT !.transcription = Read(fs, loc.audio_to_transcribe)]
                /\ fs' = RemoveAll(loc.files_to_cleanup, fs)
                /\ pc' = "transcribed"
                /\ UNCHANGED pending
           ELSE /\ pending' = ErrorResponse("engine")
                /\ pc' = "finally"
                /\ UNCHANGED <<loc, fs>>
    /\ inside' = "none"
    /\ UNCHANGED <<scribe, suspended, variant, startup, job_input, leaked, pipe, loads, response, outcome, conv>>

\* transcriptions = model.transcribe([current_path])
ChainTranscribe ==
    /\ calls' = Append(calls, Call("transcribe", loc.audio_to_transcribe, NoPath, fs))
    /\ \E o \in EngineChoices(fs, loc.audio_to_transcribe) :
        /\ engine' = o
        /\ IF o = "ok"
           THEN /\ loc' = [loc EXCEPT !.transcription = Read(fs, loc.audio_to_transcribe)]
                /\ pc' = "transcribed"
                /\ UNCHANGED pending
           ELSE /\ pending' = ErrorResponse("engine")
                /\ pc' = "finally"
                /\ UNCHANGED loc
    /\ inside' = "none"
    /\ UNCHANGED <<scribe, suspended, variant, startup, job_input, fs, leaked, pipe, loads, response, outcome, conv>>

\* the return statement as it would be if apply_diarization were given
\* current_path
ChainReturn_DiarizesCurrent(model_name) ==
    /\ IF job_input.enable_diarization
       THEN \E o \in DiarChoices, turns \in DiarizerTurns :
              LET d == ChainApplyDiarization(turns, o) IN
              /\ loc' = [loc EXCEPT !.diarization = d]
              /\ calls' = calls \o DiarCalls(loc.audio_to_transcribe, fs)
              /\ outcome' = [outcome EXCEPT !.diar = o]
              /\ pending' = [kind |-> "ok",
                             transcription |-> loc.transcription,
                             language |-> "ja",
                             model |-> model_name,
                             denoise_applied |-> job_input.enable_denoise,
                             dereverb_applied |-> job_input.enable_dereverberation,
                             vad_applied |-> job_input.enable_vad,
                             diarization |-> d]
       ELSE /\ pending' = [kind |-> "ok",
                           transcription |-> loc.transcription,
                           language |-> "ja",
                           model |-> model_name,
                           denoise_applied |-> job_input.enable_denoise,
                           dereverb_applied |-> job_input.enable_dereverberation,
                           vad_applied |-> job_input.enable_vad,
                           diarization |-> <<>>]
            /\ UNCHANGED <<loc, calls, outcome>>
    /\ pc' = "finally"
    /\ inside' = "none"
    /\ UNCHANGED <<scribe, suspended, variant, startup, job_input, fs, leaked, pipe, loads, response, conv, engine>>

\* diarization and the return statement
ChainReturn(model_name) ==
    /\ IF job_input.enable_diarization
       THEN \E o \in DiarChoices, turns \in DiarizerTurns :
              LET d == ChainApplyDiarization(turns, o) IN
              /\ loc' = [loc EXCEPT !.diarization = d]
              /\ calls' = calls \o DiarCalls(loc.temp_audio_path, fs)
              /\ outcome' = [outcome EXCEPT !.diar = o]
              /\ pending' = [kind |-> "ok",
                             transcription |-> loc.transcription,
                             language |-> "ja",
                             model |-> model_name,
                             denoise_applied |-> job_input.enable_denoise,
                             dereverb_applied |-> job_input.enable_dereverberation,
                             vad_applied |-> job_input.enable_vad,
                             diarization |-> d]
       ELSE /\ pending' = [kind |-> "ok",
                           transcription |-> loc.transcription,
                           language |-> "ja",
                           model |-> model_name,
                           denoise_applied |-> job_input.enable_denoise,
                           dereverb_applied |-> job_input.enable_dereverberation,
                           vad_applied |-> job_input.enable_vad,
                           diarization |-> <<>>]
            /\ UNCHANGED <<loc, calls, outcome>>
    /\ pc' = "finally"
    /\ inside' = "none"
    /\ UNCHANGED <<scribe, suspended, variant, startup, job_input, fs, leaked, pipe, loads, response, conv, engine>>

\* for f in files_to_cleanup: if os.path.exists(f): os.remove(f)
RECURSIVE ListCleanup(_, _)
ListCleanup(files, fsys) ==
    IF files = <<>> THEN fsys
    ELSE ListCleanup(Tail(files),
                     IF Exists(fsys, Head(files)) THEN Remove(fsys, Head(files)) ELSE fsys)

\* the paths the loop calls os.remove on, in order
RECURSIVE ListRemovals(_, _)
ListRemovals(files, fsys) ==
    IF files = <<>> THEN <<>>
    ELSE IF Exists(fsys, Head(files))
         THEN <<Head(files)>> \o ListRemovals(Tail(files), Remove(fsys, Head(files)))
         ELSE ListRemovals(Tail(files), fsys)

ChainFinally ==
    /\ pc = "finally"
    /\ fs' = ListCleanup(loc.files_to_cleanup, fs)
    /\ outcome' = [outcome EXCEPT !.cleanup = "ok",
                                  !.removed = ListRemovals(loc.files_to_cleanup, fs)]
    /\ response' = pending
    /\ pc' = "done"
    /\ inside' = "none"
    /\ UNCHANGED <<scribe, suspended, variant, startup, job_input, leaked, pipe, loads, loc, pending, calls, conv, engine>>

ParakeetReceive ==
    /\ variant = "parakeet" /\ pc = "idle"
    /\ \E j \in JobInputs :
        /\ job_input' = j
        /\ IF ~j.audio_base64
           THEN /\ response' = ErrorResponse("No audio_base64 provided")
                /\ pc' = "done"
                /\ UNCHANGED <<fs, loc, outcome>>
           ELSE LET p == NamedTemporaryFile(fs, ".wav") IN
                /\ fs' = Write(fs, p, RawUpload)
                /\ outcome' = [outcome EXCEPT !.created = {p}]
                /\ loc' = [loc EXCEPT !.temp_audio_path = p,
                                      !.files_to_cleanup = <<p>>,
                                      !.audio_to_transcribe = p]
                /\ pc' = "saved"
                /\ UNCHANGED response
    /\ inside' = "none"
    /\ UNCHANGED <<scribe, suspended, variant, startup, leaked, pipe, loads, pending, calls, conv, engine>>

ParakeetDenoise ==
    /\ variant = "parakeet" /\ pc = "saved"
    /\ ChainStage(job_input.enable_denoise,
                  StageChoices(fs, loc.audio_to_transcribe),
                  "apply_deepfilter", "denoise", "denoised_path", "denoised")

ParakeetDereverb ==
    /\ variant = "parakeet" /\ pc = "denoised"
    /\ ChainStage(job_input.enable_dereverberation,
                  StageChoices(fs, loc.audio_to_transcribe),
                  "apply_wpe", "dereverb", "dereverb_path", "dereverbed")

ParakeetVad ==
    /\ variant = "parakeet" /\ pc = "dereverbed"
    /\ ChainStage(job_input.enable_vad,
                  VadChoices(fs, loc.audio_to_transcribe),
                  "apply_vad", "vad", "vad_filtered_path", "vadded")

ParakeetTranscribe == variant = "parakeet" /\ pc = "vadded" /\ ChainTranscribe

ParakeetReturn ==
    /\ variant = "parakeet" /\ pc = "transcribed"
    /\ ChainReturn("parakeet-tdt-0.6b-ja")

ParakeetFinally == variant = "parakeet" /\ ChainFinally

\* TranscribeRequest.audio_base64 is a required str: the empty string passes
ReazonReceive ==
    /\ variant = "reazon" /\ pc = "idle"
    /\ \E j \in JobInputs :
        LET p == NamedTemporaryFile(fs, ".wav") IN
        /\ job_input' = j
        /\ fs' = Write(fs, p, RawUpload)
        /\ outcome' = [outcome EXCEPT !.created = {p}]
        /\ loc' = [loc EXCEPT !.temp_audio_path = p,
                              !.files_to_cleanup = <<p>>,
                              !.audio_to_transcribe = p]
        /\ pc' = "saved"
    /\ inside' = "none"
    /\ UNCHANGED <<scribe, suspended, variant, startup, leaked, pipe, loads, pending, response, calls, conv, engine>>

ReazonDenoise ==
    /\ variant = "reazon" /\ pc = "saved"
    /\ ChainStage(job_input.enable_denoise,
                  StageChoices(fs, loc.audio_to_transcribe),
                  "apply_deepfilter", "denoise", "denoised_path", "denoised")

ReazonDereverb ==
    /\ variant = "reazon" /\ pc = "denoised"
    /\ ChainStage(job_input.enable_dereverberation,
                  StageChoices(fs, loc.audio_to_transcribe),
                  "apply_wpe", "dereverb", "dereverb_path", "dereverbed")

ReazonVad ==
    /\ variant = "reazon" /\ pc = "dereverbed"
    /\ ChainStage(job_input.enable_vad,
                  VadChoices(fs, loc.audio_to_transcribe),
                  "apply_vad", "vad", "vad_filtered_path", "vadded")

ReazonTranscribe == variant = "reazon" /\ pc = "vadded" /\ ChainTranscribe

ReazonReturn ==
    /\ variant = "reazon" /\ pc = "transcribed"
    /\ ChainReturn("reazonspeech-nemo-v2")

ReazonFinally == variant = "reazon" /\ ChainFinally

(***************************************************************************)
(* python-server/server.py: transcribe and transcribe_turbo (the same body *)
(* on two models)                                                          *)
(***************************************************************************)
ConvertOutcomes == {"ok", "fail", "partial"}

\* convert_webm_to_wav: "fail" is a non-zero exit, a timeout or a missing
\* ffmpeg with no output file, "partial" the same with an output file begun
ConvertWebmToWav(input_path, output_path, fsys, o) ==
    CASE o = "ok" /\ Exists(fsys, input_path) ->
            [ok |-> TRUE, fs |-> Write(fsys, output_path, Normalized(Read(fsys, input_path)))]
      [] o = "partial" /\ Exists(fsys, input_path) ->
            [ok |-> FALSE,
             fs |-> Write(fsys, output_path,
                          [Normalized(Read(fsys, input_path)) EXCEPT !.whole = FALSE])]
      [] OTHER -> [ok |-> FALSE, fs |-> fsys]

\* except Exception: try: os.unlink(tmp_file_path) except: pass
EndpointExcept(l, fsys) == Remove(fsys, l.temp_audio_path)

\* what that os.unlink deleted
EndpointExceptRemovals(l, fsys) ==
    IF Exists(fsys, l.temp_audio_path) THEN <<l.temp_audio_path>> ELSE <<>>

EndpointReceive ==
    /\ pc = "idle"
    /\ \E j \in {i \in PlainInputs : i.audio_base64} :
        LET p == NamedTemporaryFile(fs, ".webm") IN
        /\ job_input' = j
        /\ fs' = Write(fs, p, RawUpload)
        /\ outcome' = [outcome EXCEPT !.created = {p}]
        /\ loc' = [loc EXCEPT !.temp_audio_path = p]
        /\ pc' = "saved"
    /\ inside' = "none"
    /\ UNCHANGED <<scribe, suspended, variant, startup, leaked, pipe, loads, pending, response, calls, conv, engine>>

\* the conversion step as it would be if the result of convert_webm_to_wav
\* were not tested
EndpointConvert_IgnoresFailure ==
    /\ pc = "saved"
    /\ \E o \in ConvertOutcomes :
        LET wav == Replace(loc.temp_audio_path, ".webm", <<".wav">>)
            r == ConvertWebmToWav(loc.temp_audio_path, wav, fs, o)
        IN  /\ conv' = IF r.ok THEN "ok" ELSE "failed"
            /\ fs' = r.fs
            /\ loc' = [loc EXCEPT !.wav_file_path = wav,
                                  !.audio_to_transcribe = wav]
            /\ pc' = "converted"
    /\ inside' = "none"
    /\ UNCHANGED <<scribe, suspended, variant, startup, job_input, leaked, pipe, loads, pending, response, calls, outcome, engine>>

EndpointConvert ==
    /\ pc = "saved"
    /\ \E o \in ConvertOutcomes :
        LET wav == Replace(loc.temp_audio_path, ".webm", <<".wav">>)
            r == ConvertWebmToWav(loc.temp_audio_path, wav, fs, o)
        IN  /\ conv' = IF r.ok THEN "ok" ELSE "failed"
            /\ IF r.ok
               THEN /\ fs' = r.fs
                    /\ loc' = [loc EXCEPT !.wav_file_path = wav,
                                          !.audio_to_transcribe = wav]
                    /\ outcome' = [outcome EXCEPT !.created = @ \cup Written(fs, r.fs)]
                    /\ pc' = "converted"
                    /\ UNCHANGED response
               ELSE /\ fs' = EndpointExcept(loc, r.fs)
                    /\ outcome' = [outcome EXCEPT !.cleanup = "ok",
                                                  !.removed = EndpointExceptRemovals(loc, r.fs),
                                                  !.created = @ \cup Written(fs, r.fs)]
                    /\ loc' = [loc EXCEPT !.wav_file_path = wav]
                    /\ response' = ErrorResponse("Failed to convert audio format")
                    /\ pc' = "done"
    /\ inside' = "none"
    /\ UNCHANGED <<scribe, suspended, variant, startup, job_input, leaked, pipe, loads, pending, calls, engine>>

EndpointDenoise ==
    /\ pc = "converted"
    /\ \E o \in StageChoices(fs, loc.wav_file_path) :
        LET r == ServerApplyDeepfilter(loc.wav_file_path, fs, o) IN
        /\ fs' = r.fs
        /\ loc' = IF r.ret # loc.wav_file_path
                  THEN [loc EXCEPT !.denoised_path = r.ret,
                                   !.audio_to_transcribe = r.ret,
                                   !.denoise_applied = TRUE]
                  ELSE [loc EXCEPT !.denoised_path = r.ret]
        /\ calls' = Append(calls, Call("apply_deepfilter", loc.wav_file_path, r.ret, fs))
        /\ outcome' = [outcome EXCEPT !.denoise = o,
                                              !.created = @ \cup Written(fs, r.fs)]
    /\ pc' = "denoised"
    /\ inside' = "none"
    /\ UNCHANGED <<scribe, suspended, variant, startup, job_input, leaked, pipe, loads, pending, response, conv, engine>>

EndpointDereverb ==
    /\ pc = "denoised"
    /\ \E o \in StageChoices(fs, loc.audio_to_transcribe) :
        LET r == ServerApplyWpe(loc.audio_to_transcribe, fs, o) IN
        /\ fs' = r.fs
        /\ loc' = IF r.ret # loc.audio_to_transcribe
                  THEN [loc EXCEPT !.dereverb_path = r.ret,
                                   !.audio_to_transcribe = r.ret,
                                   !.dereverb_applied = TRUE]
                  ELSE [loc EXCEPT !.dereverb_path = r.ret]
        /\ calls' = Append(calls, Call("apply_wpe", loc.audio_to_transcribe, r.ret, fs))
        /\ outcome' = [outcome EXCEPT !.dereverb = o,
                                              !.created = @ \cup Written(fs, r.fs)]
    /\ pc' = "dereverbed"
    /\ inside' = "none"
    /\ UNCHANGED <<scribe, suspended, variant, startup, job_input, leaked, pipe, loads, pending, response, conv, engine>>

\* model.transcribe(...) and the loop over the lazy segments; "iter_raise" is
\* an exception raised while the segments are iterated
EndpointEngineChoices(fsys, p) ==
    IF Exists(fsys, p) THEN {"ok", "raise", "iter_raise"} ELSE {"raise"}

EndpointTranscribe ==
    /\ pc = "dereverbed"
    /\ calls' = Append(calls, Call("transcribe", loc.audio_to_transcribe, NoPath, fs))
    /\ \E o \in EndpointEngineChoices(fs, loc.audio_to_transcribe) :
        /\ engine' = o
        /\ IF o = "ok"
           THEN /\ \E segments \in EngineSegments :
                     loc' = [loc EXCEPT !.transcription = Read(fs, loc.audio_to_transcribe),
                                        !.segments = segments,
                                        !.transcription_text = TranscriptionText(segments)]
                /\ pc' = "transcribed"
                /\ UNCHANGED <<fs, response, outcome>>
           ELSE /\ fs' = EndpointExcept(loc, fs)
                /\ outcome' = [outcome EXCEPT !.cleanup = "ok",
                                              !.removed = EndpointExceptRemovals(loc, fs)]
                /\ response' = ErrorResponse("engine")
                /\ pc' = "done"
                /\ UNCHANGED loc
    /\ inside' = "none"
    /\ UNCHANGED <<scribe, suspended, variant, startup, job_input, leaked, pipe, loads, pending, conv>>

EndpointUnlinks(l, fsys) ==
    LET f1 == IF l.temp_audio_path # NoPath /\ Exists(fsys, l.temp_audio_path)
              THEN Remove(fsys, l.temp_audio_path) ELSE fsys
        f2 == IF l.wav_file_path # NoPath /\ Exists(f1, l.wav_file_path)
              THEN Remove(f1, l.wav_file_path) ELSE f1
        f3 == IF l.denoised_path # NoPath /\ Exists(f2, l.denoised_path)
                 /\ l.denoised_path # l.wav_file_path
              THEN Remove(f2, l.denoised_path) ELSE f2
        f4 == IF l.dereverb_path # NoPath /\ Exists(f3, l.dereverb_path)
                 /\ l.dereverb_path # l.denoised_path
              THEN Remove(f3, l.dereverb_path) ELSE f3
    IN  f4

\* the paths the inline cleanup calls os.unlink on, in order
EndpointRemovals(l, fsys) ==
    LET r1 == IF l.temp_audio_path # NoPath /\ Exists(fsys, l.temp_audio_path)
              THEN <<l.temp_audio_path>> ELSE <<>>
        r2 == IF l.wav_file_path # NoPath /\ Exists(RemoveAll(r1, fsys), l.wav_file_path)
              THEN Append(r1, l.wav_file_path) ELSE r1
        r3 == IF l.denoised_path # NoPath /\ Exists(RemoveAll(r2, fsys), l.denoised_path)
                 /\ l.denoised_path # l.wav_file_path
              THEN Append(r2, l.denoised_path) ELSE r2
        r4 == IF l.dereverb_path # NoPath /\ Exists(RemoveAll(r3, fsys), l.dereverb_path)
                 /\ l.dereverb_path # l.denoised_path
              THEN Append(r3, l.dereverb_path) ELSE r3
    IN  r4

EndpointCleanup ==
    /\ pc = "transcribed"
    /\ fs' = EndpointUnlinks(loc, fs)
    /\ outcome' = [outcome EXCEPT !.cleanup = "ok", !.removed = EndpointRemovals(loc, fs)]
    /\ response' = [kind |-> "ok",
                    text |-> Strip(loc.transcription_text),
                    language |-> "ja",
                    denoise_applied |-> loc.denoise_applied,
                    dereverb_applied |-> loc.dereverb_applied]
    /\ pc' = "done"
    /\ inside' = "none"
    /\ UNCHANGED <<scribe, suspended, variant, startup, job_input, leaked, pipe, loads, loc, pending, calls, conv, engine>>

ServerReceive == variant = "server" /\ EndpointReceive

ServerConvert == variant = "server" /\ EndpointConvert

ServerDenoise == variant = "server" /\ EndpointDenoise

ServerDereverb == variant = "server" /\ EndpointDereverb

ServerTranscribe == variant = "server" /\ EndpointTranscribe

ServerCleanup == variant = "server" /\ EndpointCleanup

TurboReceive == variant = "turbo" /\ EndpointReceive

TurboConvert == variant = "turbo" /\ EndpointConvert

TurboDenoise == variant = "turbo" /\ EndpointDenoise

TurboDereverb == variant = "turbo" /\ EndpointDereverb

TurboTranscribe == variant = "turbo" /\ EndpointTranscribe

TurboCleanup == variant = "turbo" /\ EndpointCleanup

(***************************************************************************)
(* The process takes its next request.  Temp names are fresh per request,  *)
(* so what an earlier request left behind is only remembered as leaked.    *)
(***************************************************************************)
NextRequest ==
    /\ pc = "done"
    /\ pc' = "idle"
    /\ leaked' = (leaked \/ fs # {})
    /\ fs' = {}
    /\ job_input' = NoInput
    /\ loc' = InitLoc
    /\ pending' = NoResponse
    /\ response' = NoResponse
    /\ calls' = <<>>
    /\ outcome' = NoOutcome
    /\ conv' = "none"
    /\ engine' = "none"
    /\ inside' = "none"
    /\ UNCHANGED <<scribe, suspended, variant, startup, pipe, loads>>

Next ==
    \/ KotobaReceive \/ KotobaDenoise \/ KotobaDereverb \/ KotobaVad
    \/ KotobaTranscribe \/ KotobaDiarize \/ KotobaFinally
    \/ SimpleReceive \/ SimpleTranscribe \/ SimpleFinally
    \/ ParakeetReceive \/ ParakeetDenoise \/ ParakeetDereverb \/ ParakeetVad
    \/ ParakeetTranscribe \/ ParakeetReturn \/ ParakeetFinally
    \/ ReazonReceive \/ ReazonDenoise \/ ReazonDereverb \/ ReazonVad
    \/ ReazonTranscribe \/ ReazonReturn \/ ReazonFinally
    \/ ServerReceive \/ ServerConvert \/ ServerDenoise \/ ServerDereverb
    \/ ServerTranscribe \/ ServerCleanup
    \/ TurboReceive \/ TurboConvert \/ TurboDenoise \/ TurboDereverb
    \/ TurboTranscribe \/ TurboCleanup
    \/ NextRequest

Spec == Init /\ [][Next]_vars

(***************************************************************************)
(* The same programs under the assumption that every external call         *)
(* (ffmpeg, the stage models, the transcription engine, the diarizer,      *)
(* the file system) returns or raises: a handler that has a request takes  *)
(* its next step.  Nothing is assumed about the arrival of requests.       *)
(***************************************************************************)
Handling == pc \notin {"idle", "done"}

SpecFair == Init /\ [][Next]_vars /\ WF_vars(Handling /\ Next)

(***************************************************************************)
(* The same programs on a storage where os.remove / os.unlink can raise    *)
(* (permission denied, file busy, read-only file system)                   *)
(***************************************************************************)
\* a cleanup whose k-th removal raises: the removals before it are done, the
\* ones after it are not attempted
CleanupUntil(removals, k) ==
    /\ fs' = RemoveAll(SubSeq(removals, 1, k - 1), fs)
    /\ outcome' = [outcome EXCEPT !.cleanup = "raise",
                                  !.removed = SubSeq(removals, 1, k - 1)]

\* try: ... return {...} finally: os.remove(...) -- the exception leaves the
\* finally block, replaces the pending return value or exception, and the
\* outer except turns it into the response
FinallyRemoveFails(removals) ==
    /\ pc = "finally"
    /\ \E k \in 1..Len(removals) : CleanupUntil(removals, k)
    /\ response' = ErrorResponse("os.remove")
    /\ pc' = "done"
    /\ inside' = "none"
    /\ UNCHANGED <<scribe, suspended, variant, startup, job_input, leaked, pipe, loads, loc, pending, calls, conv, engine>>

KotobaFinallyRemoveFails ==
    variant = "kotoba" /\ FinallyRemoveFails(KotobaRemovals(loc, fs))

SimpleFinallyRemoveFails ==
    variant = "simple" /\ FinallyRemoveFails(SimpleRemovals(loc, fs))

ParakeetFinallyRemoveFails ==
    variant = "parakeet" /\ FinallyRemoveFails(ListRemovals(loc.files_to_cleanup, fs))

ReazonFinallyRemoveFails ==
    variant = "reazon" /\ FinallyRemoveFails(ListRemovals(loc.files_to_cleanup, fs))

\* server.py: an os.unlink of the inline cleanup raises; the except clause
\* calls os.unlink(tmp_file_path) once more, ignores its failure, and raises
\* HTTPException(500).  The second unlink can only succeed when the first
\* one was the one that failed.
EndpointCleanupUnlinkFails ==
    /\ pc = "transcribed"
    /\ LET r == EndpointRemovals(loc, fs) IN
       \E k \in 1..Len(r) :
         \E again \in (IF k = 1 THEN BOOLEAN ELSE {FALSE}) :
           LET removed == IF again THEN <<loc.temp_audio_path>> ELSE SubSeq(r, 1, k - 1) IN
           /\ fs' = RemoveAll(removed, fs)
           /\ outcome' = [outcome EXCEPT !.cleanup = "raise", !.removed = removed]
    /\ response' = ErrorResponse("os.unlink")
    /\ pc' = "done"
    /\ inside' = "none"
    /\ UNCHANGED <<scribe, suspended, variant, startup, job_input, leaked, pipe, loads, loc, pending, calls, conv, engine>>

\* the conversion fails and the os.unlink of the except clause fails too
EndpointConvertUnlinkFails ==
    /\ pc = "saved"
    /\ \E o \in ConvertOutcomes :
        LET wav == Replace(loc.temp_audio_path, ".webm", <<".wav">>)
            r == ConvertWebmToWav(loc.temp_audio_path, wav, fs, o)
        IN  /\ ~r.ok
            /\ conv' = "failed"
            /\ fs' = r.fs
            /\ loc' = [loc EXCEPT !.wav_file_path = wav]
            /\ outcome' = [outcome EXCEPT !.cleanup = "raise",
                                          !.created = @ \cup Written(fs, r.fs)]
    /\ response' = ErrorResponse("Failed to convert audio format")
    /\ pc' = "done"
    /\ inside' = "none"
    /\ UNCHANGED <<scribe, suspended, variant, startup, job_input, leaked, pipe, loads, pending, calls, engine>>

\* the engine fails and the os.unlink of the except clause fails too
EndpointTranscribeUnlinkFails ==
    /\ pc = "dereverbed"
    /\ calls' = Append(calls, Call("transcribe", loc.audio_to_transcribe, NoPath, fs))
    /\ \E o \in EndpointEngineChoices(fs, loc.audio_to_transcribe) \ {"ok"} :
        engine' = o
    /\ outcome' = [outcome EXCEPT !.cleanup = "raise"]
    /\ response' = ErrorResponse("engine")
    /\ pc' = "done"
    /\ inside' = "none"
    /\ UNCHANGED <<scribe, suspended, variant, startup, job_input, fs, leaked, pipe, loads, loc, pending, conv>>

ServerCleanupUnlinkFails == variant = "server" /\ EndpointCleanupUnlinkFails

ServerConvertUnlinkFails == variant = "server" /\ EndpointConvertUnlinkFails

ServerTranscribeUnlinkFails == variant = "server" /\ EndpointTranscribeUnlinkFails

TurboCleanupUnlinkFails == variant = "turbo" /\ EndpointCleanupUnlinkFails

TurboConvertUnlinkFails == variant = "turbo" /\ EndpointConvertUnlinkFails

TurboTranscribeUnlinkFails == variant = "turbo" /\ EndpointTranscribeUnlinkFails

NextRemoveFails ==
    \/ Next
    \/ KotobaFinallyRemoveFails \/ SimpleFinallyRemoveFails
    \/ ParakeetFinallyRemoveFails \/ ReazonFinallyRemoveFails
    \/ ServerCleanupUnlinkFails \/ ServerConvertUnlinkFails
    \/ ServerTranscribeUnlinkFails
    \/ TurboCleanupUnlinkFails \/ TurboConvertUnlinkFails
    \/ TurboTranscribeUnlinkFails

SpecRemoveFails == Init /\ [][NextRemoveFails]_vars

(***************************************************************************)
(* Two requests in one process.  The request whose state is in pc,         *)
(* job_input, loc, ... runs; the other one waits in `suspended`.  Control  *)
(* passes from one to the other only where the running handler gives it    *)
(* up: the endpoints of server.py are coroutines (async def) on uvicorn's  *)
(* single event loop that await once, on audio.read(), after the temp file *)
(* was created; the endpoint of reazonspeech is a coroutine without an     *)
(* await; the RunPod handlers are plain functions that the serverless      *)
(* worker calls for one job at a time.  What a finished request left       *)
(* behind is only remembered as leaked, as in NextRequest; the files of    *)
(* the other request stay.                                                 *)
(***************************************************************************)
Running ==
    [pc |-> pc, job_input |-> job_input, loc |-> loc, pending |-> pending,
     response |-> response, calls |-> calls, outcome |-> outcome,
     conv |-> conv, engine |-> engine, inside |-> inside]

\* the shared model that the next step of the running request calls
NextModel ==
    CASE variant \in ServerVariants /\ pc = "converted" -> "df_model"
      [] variant \in ServerVariants /\ pc = "dereverbed" -> "model"
      [] variant \in StagedVariants /\ pc = "saved" /\ job_input.enable_denoise -> "df_model"
      [] variant \in StagedVariants /\ pc = "dereverbed" /\ job_input.enable_vad -> "vad_model"
      [] variant \in StagedVariants /\ pc = "vadded" -> "model"
      [] variant \in StagedVariants /\ pc = "transcribed" /\ job_input.enable_diarization
           /\ diarization_pipeline -> "diarization_pipeline"
      [] variant = "simple" /\ pc = "saved" -> "model"
      [] OTHER -> "none"

\* the running request enters the call; the step that follows returns from it
Enter ==
    /\ inside = "none" /\ NextModel # "none"
    /\ inside' = NextModel
    /\ UNCHANGED <<scribe, suspended, variant, startup, pc, job_input, fs, leaked, pipe, loads, loc,
                   pending, response, hist>>

\* the handlers as they would be if any point of them could give up control
\* (endpoints declared with def and run on the thread pool)
AtAwait_Anywhere == TRUE

\* The running request is where another request can get to run.  server.py
\* awaits audio.read() between the creation of the temp file and the write
\* into it; the write touches that file only, so the request waits at
\* "saved", with the file written.
AtAwait ==
    /\ inside = "none"
    /\ \/ pc = "idle"
       \/ variant \in ServerVariants /\ pc = "saved"

Switch ==
    /\ AtAwait
    /\ pc' = suspended.pc
    /\ job_input' = suspended.job_input
    /\ loc' = suspended.loc
    /\ pending' = suspended.pending
    /\ response' = suspended.response
    /\ calls' = suspended.calls
    /\ outcome' = suspended.outcome
    /\ conv' = suspended.conv
    /\ engine' = suspended.engine
    /\ inside' = suspended.inside
    /\ suspended' = Running
    /\ UNCHANGED <<scribe, variant, startup, fs, leaked, pipe, loads>>

\* the response went out; the next request of this connection can come
Deliver ==
    /\ pc = "done"
    /\ pc' = "idle"
    /\ leaked' = (leaked \/ \E p \in outcome.created : Exists(fs, p))
    /\ job_input' = NoInput
    /\ loc' = InitLoc
    /\ pending' = NoResponse
    /\ response' = NoResponse
    /\ calls' = <<>>
    /\ outcome' = NoOutcome
    /\ conv' = "none"
    /\ engine' = "none"
    /\ inside' = "none"
    /\ fs' = {e \in fs : e[1] \notin outcome.created}
    /\ UNCHANGED <<scribe, suspended, variant, startup, pipe, loads>>

NextConcurrent ==
    \/ KotobaReceive \/ KotobaDenoise \/ KotobaDereverb \/ KotobaVad
    \/ KotobaTranscribe \/ KotobaDiarize \/ KotobaFinally
    \/ SimpleReceive \/ SimpleTranscribe \/ SimpleFinally
    \/ ParakeetReceive \/ ParakeetDenoise \/ ParakeetDereverb \/ ParakeetVad
    \/ ParakeetTranscribe \/ ParakeetReturn \/ ParakeetFinally
    \/ ReazonReceive \/ ReazonDenoise \/ ReazonDereverb \/ ReazonVad
    \/ ReazonTranscribe \/ ReazonReturn \/ ReazonFinally
    \/ ServerReceive \/ ServerConvert \/ ServerDenoise \/ ServerDereverb
    \/ ServerTranscribe \/ ServerCleanup
    \/ TurboReceive \/ TurboConvert \/ TurboDenoise \/ TurboDereverb
    \/ TurboTranscribe \/ TurboCleanup
    \/ Enter \/ Switch \/ Deliver

SpecConcurrent == Init /\ [][NextConcurrent]_vars

(***************************************************************************)
(* Vocabulary of the properties                                            *)
(***************************************************************************)
Stages == {"denoise", "dereverb", "vad"}

StageFns == {"apply_deepfilter", "apply_wpe", "apply_vad"}

Rank(fn) ==
    CASE fn = "apply_deepfilter" -> 1
      [] fn = "apply_wpe" -> 2
      [] fn = "apply_vad" -> 3
      [] OTHER -> 4

\* the configuration of the request in flight, per stage
StageOn ==
    [s \in Stages |->
        IF variant \in ServerVariants THEN s # "vad"
        ELSE CASE s = "denoise" -> job_input.enable_denoise
               [] s = "dereverb" -> job_input.enable_dereverberation
               [] OTHER -> job_input.enable_vad]

Failed(s) == outcome[s] \in {"fail", "partial"}

\* the calls of the enhancement chain: stages and engine, in call order
IsChainCall(c) == c.fn \in StageFns \cup {"transcribe"}

Chain == SelectSeq(calls, IsChainCall)

IsEngineCall(c) == c.fn = "transcribe"

EngineCalls == SelectSeq(calls, IsEngineCall)

EngineInvoked == EngineCalls # <<>>

TempCreated == loc.temp_audio_path # NoPath

\* the artifact the chain starts from
Original ==
    IF variant \in ServerVariants THEN loc.wav_file_path ELSE loc.temp_audio_path

HasToken(p, t) == \E i \in 1..Len(p) : p[i] = t

\* C1: in the job handlers, once a request that created its temp file has
\* returned, no file it created exists any more.
C1_NothingLeftBehind ==
    (variant \in JobHandlers /\ pc = "done" /\ TempCreated) => fs = {}

\* C2: in server.py, when a request ends in failure, no temp artifact of
\* that request survives.
C2_FailureLeavesNothing ==
    (variant \in ServerVariants /\ pc = "done" /\ response.kind = "error") => fs = {}

\* C3: in server.py, when format normalization fails the request is aborted
\* with an error and neither apply_deepfilter, apply_wpe nor the engine is
\* ever invoked for it.
C3_ConvertFailureAborts ==
    (variant \in ServerVariants /\ conv = "failed")
        => (calls = <<>> /\ pc = "done" /\ response.kind = "error")

C3_Witness ==
    /\ variant = "server" /\ conv = "failed" /\ pc = "done"
    /\ response = ErrorResponse("Failed to convert audio format")
    /\ Exists(fs, loc.wav_file_path)

\* C4: a failure inside an enabled enhancement stage never aborts the
\* request: the engine is still invoked and, if it succeeds, the request
\* returns a transcription result rather than an error.
C4_StageFailureNeverAborts ==
    (pc = "done" /\ \E s \in Stages : Failed(s))
        => (EngineInvoked /\ (engine = "ok" => response.kind = "ok"))

C4_Witness ==
    /\ variant = "kotoba" /\ pc = "done"
    /\ \A s \in Stages : Failed(s)
    /\ outcome.vad = "partial"
    /\ engine = "ok" /\ response.kind = "ok"

\* C5: in every pipeline variant a reported flag denoise_applied /
\* dereverb_applied / vad_applied is true only if that stage executed and
\* produced a new artifact that replaced the current one.
C5_FlagsMeanApplied ==
    (pc = "done" /\ response.kind = "ok" /\ variant # "simple")
        => /\ response.denoise_applied => outcome.denoise = "ok"
           /\ response.dereverb_applied => outcome.dereverb = "ok"
           /\ variant \in StagedVariants => (response.vad_applied => outcome.vad = "ok")

\* The audio a run of the chain hands to the engine when the stages of `on`
\* are enabled and each stage goes the way it went in this request.
RECURSIVE RunOf(_, _, _)
RunOf(on, order, c) ==
    IF order = <<>> THEN c
    ELSE RunOf(on, Tail(order),
               IF on[Head(order)] /\ outcome[Head(order)] = "ok"
               THEN Enhanced(c, Head(order)) ELSE c)

Without(s) == [StageOn EXCEPT ![s] = FALSE]

\* C6: degrade-not-fail: a run in which an enabled stage S fails hands the
\* engine exactly the artifact a run with S disabled, and everything else
\* equal, hands it.
C6_DegradeNotFail ==
    \A s \in Stages :
        (variant \in StagedVariants /\ EngineInvoked /\ StageOn[s] /\ Failed(s))
            => EngineCalls[1].content
                 = RunOf(Without(s), <<"denoise", "dereverb", "vad">>, RawUpload)

C6_Witness ==
    /\ variant = "parakeet" /\ EngineInvoked
    /\ outcome.denoise = "ok" /\ outcome.dereverb = "partial" /\ outcome.vad = "ok"
    /\ EngineCalls[1].content.applied = <<"denoise", "vad">>

VadCalls == SelectSeq(calls, LAMBDA c : c.fn = "apply_vad")

\* C7: when VAD detects no speech it writes no file and returns its input
\* path, so the engine is given the VAD stage's input.
C7_NoSpeechPassesInput ==
    (outcome.vad = "nospeech")
        => /\ VadCalls[1].ret = VadCalls[1].arg
           /\ \A p \in Paths(fs) : ~HasToken(p, "_vad")
           /\ EngineInvoked =>
                /\ EngineCalls[1].arg = VadCalls[1].arg
                /\ EngineCalls[1].content = VadCalls[1].content
                /\ EngineCalls[1].content.whole

C7_Witness ==
    /\ variant = "reazon" /\ outcome.vad = "nospeech" /\ outcome.denoise = "ok"
    /\ EngineInvoked /\ engine = "ok" /\ pc = "done"
    /\ EngineCalls[1].content.applied = <<"denoise">>

AllOff ==
    /\ ~job_input.enable_denoise /\ ~job_input.enable_dereverberation
    /\ ~job_input.enable_vad /\ ~job_input.enable_diarization

\* C8: with all four options false no stage function is called, the engine
\* is invoked on the unmodified input, the flags are false and diarization
\* is the empty list.
C8_AllDisabled ==
    (variant \in StagedVariants /\ AllOff /\ TempCreated)
        => /\ \A i \in 1..Len(calls) :
                /\ calls[i].fn = "transcribe"
                /\ calls[i].arg = loc.temp_audio_path
                /\ calls[i].content = RawUpload
           /\ pc = "done" => Len(calls) = 1
           /\ (pc = "done" /\ response.kind = "ok")
                => /\ ~response.denoise_applied
                   /\ ~response.dereverb_applied
                   /\ ~response.vad_applied
                   /\ response.diarization = <<>>
                   /\ response.transcription = RawUpload

C8_Witness ==
    /\ variant = "kotoba" /\ AllOff /\ TempCreated
    /\ pc = "done" /\ response.kind = "ok"

\* the output of the latest stage before call i of the chain that produced
\* a new artifact, or the original
CurrentBefore(i) ==
    LET S == {j \in 1..(i - 1) : Chain[j].ret # NoPath /\ Chain[j].ret # Chain[j].arg}
    IN  IF S = {} THEN Original
        ELSE Chain[CHOOSE j \in S : \A k \in S : k <= j].ret

ChainReached ==
    \/ variant \in StagedVariants /\ TempCreated
    \/ variant \in ServerVariants /\ conv = "ok"

\* C9: the enabled stages run in the order denoise, dereverberation, VAD,
\* transcription; each receives the output of the latest preceding stage
\* that succeeded (or the original); the engine is invoked exactly once, on
\* the final current artifact.
C9_FixedOrder ==
    /\ \A i, j \in 1..Len(Chain) : i < j => Rank(Chain[i].fn) < Rank(Chain[j].fn)
    /\ \A i \in 1..Len(Chain) : Chain[i].arg = CurrentBefore(i)
    /\ (pc = "done" /\ ChainReached)
         => /\ Len(EngineCalls) = 1
            /\ EngineCalls[1].arg = loc.audio_to_transcribe
            /\ \A s \in Stages : StageOn[s] <=> outcome[s] # "skip"

C9_Witness ==
    /\ variant = "kotoba" /\ pc = "done" /\ Len(Chain) = 4
    /\ outcome.denoise = "ok" /\ outcome.dereverb = "fail" /\ outcome.vad = "ok"
    /\ Chain[3].arg = Chain[1].ret
    /\ Chain[4].arg = Chain[3].ret

\* C10: every request's audio is format-normalized before any stage,
\* diarization or transcription runs on it.
C10_NormalizedFirst ==
    \A i \in 1..Len(calls) : calls[i].content.src = "pcm"

(***************************************************************************)
(* Diarization                                                             *)
(***************************************************************************)
IsDiarCall(c) == c.fn \in {"apply_diarization", "diarization_pipeline"}

DiarCallSeq == SelectSeq(calls, IsDiarCall)

IsPipelineCall(c) == c.fn = "diarization_pipeline"

PipelineCalls == SelectSeq(calls, IsPipelineCall)

\* C11: when diarization is enabled, apply_diarization and the diarizer are
\* given the request's original input file, with the uploaded audio still in
\* it, and never the output of the denoise, dereverberation or VAD stage.
C11_DiarizerGetsOriginal ==
    /\ \A i \in 1..Len(DiarCallSeq) :
          /\ job_input.enable_diarization
          /\ DiarCallSeq[i].arg = loc.temp_audio_path
          /\ DiarCallSeq[i].content = RawUpload
    /\ (pc \in {"finally", "done"} /\ variant \in StagedVariants
          /\ job_input.enable_diarization /\ engine = "ok")
         => Len(DiarCallSeq) >= 1

C11_Witness ==
    /\ variant \in {"parakeet", "reazon"} /\ pc = "done"
    /\ Len(PipelineCalls) = 1
    /\ outcome.denoise = "ok" /\ outcome.vad = "ok"
    /\ loc.audio_to_transcribe # loc.temp_audio_path
    /\ PipelineCalls[1].arg = loc.temp_audio_path

\* C12: diarization is never an error to the caller: when it is disabled,
\* when the pipeline is unavailable (no token or load failure at startup) or
\* when the diarizer raises, a request whose transcription succeeded still
\* returns that transcription, with diarization equal to the empty list.
C12_DiarizationNeverFatal ==
    (variant \in StagedVariants /\ pc = "done" /\ engine = "ok"
       /\ outcome.diar \in {"skip", "unavailable", "raise"})
        => /\ response.kind = "ok"
           /\ response.transcription = EngineCalls[1].content
           /\ response.diarization = <<>>

C12_Witness ==
    /\ variant = "parakeet" /\ pc = "done" /\ engine = "ok"
    /\ job_input.enable_diarization /\ outcome.diar = "raise"
    /\ Len(PipelineCalls) = 1
    /\ response.kind = "ok" /\ response.diarization = <<>>

SegmentsOrdered(segs) ==
    /\ \A i \in 1..Len(segs) : segs[i].start <= segs[i].end
    /\ \A i, j \in 1..Len(segs) : i < j => segs[i].start <= segs[j].start

AllResultsOrdered ==
    \A ts \in DiarizerTurns, o \in {"ok", "raise"} :
        SegmentsOrdered(ApplyDiarization(TRUE, ts, o))

EngineFailed == engine \in {"raise", "iter_raise"}

\* C14: when the transcription engine fails (the call raises, or the
\* iteration over its segments raises), the request ends with an error
\* response that carries nothing but the error: no transcription text, no
\* chunks, no stage flags; a success is never returned for that request.
C14_EngineFailureIsBareError ==
    EngineFailed
        => /\ pending.kind # "ok" /\ response.kind # "ok"
           /\ pc = "done"
                => /\ response.kind = "error"
                   /\ DOMAIN response = {"kind", "error"}

C14_Witness ==
    /\ variant = "server" /\ pc = "done" /\ engine = "iter_raise"
    /\ loc.denoise_applied /\ response.kind = "error"

\* C15: a failure while deleting a temp artifact never masks or replaces
\* the primary outcome of the request: when a removal raised during
\* cleanup, the caller still receives the successful result if the
\* transcription succeeded, and the original error if the request had
\* already failed.
C15_RemovalFailureNeverMasks ==
    (pc = "done" /\ outcome.cleanup = "raise")
        => /\ variant \in JobHandlers => response = pending
           /\ variant \in ServerVariants
                => /\ engine = "ok" => response.kind = "ok"
                   /\ EngineFailed => response = ErrorResponse("engine")
                   /\ conv = "failed"
                        => response = ErrorResponse("Failed to convert audio format")

NoDuplicates(s) == \A i, j \in 1..Len(s) : i < j => s[i] # s[j]

\* the files the request created: those still there and those removed
Created == Paths(fs) \cup {outcome.removed[i] : i \in 1..Len(outcome.removed)}

\* C16: after cleanup every file the request created has been removed, and
\* removed exactly once: the removal log holds each created path once, no
\* path twice (an aliased or already deleted path is skipped), and no
\* created file is left.
C16_RemovedExactlyOnce ==
    (pc = "done" /\ outcome.cleanup = "ok")
        => /\ NoDuplicates(outcome.removed)
           /\ \A p \in Created :
                /\ ~Exists(fs, p)
                /\ Cardinality({i \in 1..Len(outcome.removed) : outcome.removed[i] = p}) = 1

(***************************************************************************)
(* Concurrent requests                                                     *)
(***************************************************************************)
InFlight(f) == f.pc \notin {"idle", "done"}

RemovedBy(f) == {f.outcome.removed[i] : i \in 1..Len(f.outcome.removed)}

\* every file the request wrote and did not remove itself is still there
Intact(f) == \A p \in f.outcome.created \ RemovedBy(f) : Exists(fs, p)

\* C17: two requests that are in the process at the same time write
\* disjoint sets of paths (temp file, converted file, stage outputs, begun
\* outputs), and neither loses a file to the other: what a request in
\* flight wrote is there until that request removes it.
C17_DisjointArtifacts ==
    /\ InFlight(suspended)
         => /\ outcome.created \cap suspended.outcome.created = {}
            /\ Intact(suspended)
    /\ InFlight(Running) => Intact(Running)

\* a request finished and cleaned up while another one was waiting with its
\* temp file
C17_Witness ==
    /\ InFlight(suspended) /\ suspended.outcome.created # {}
    /\ pc = "done" /\ outcome.cleanup = "ok" /\ Len(outcome.removed) >= 2
    /\ Intact(suspended)

Terminated ==
    /\ pc = "done"
    /\ response # NoResponse
    /\ outcome.created # {} => outcome.cleanup # "skip"

\* C19: every started request eventually reaches a terminal outcome (a
\* result or an error returned to the caller) with its cleanup step
\* executed, provided every external call returns or raises.
C19_RequestTerminates == Handling ~> Terminated

\* a request that went through every stage is over, with its cleanup done
C19_Witness ==
    /\ Terminated
    /\ outcome.cleanup = "ok" /\ Len(outcome.removed) >= 2
    /\ Len(calls) >= 4

(***************************************************************************)
(* Response contract                                                       *)
(***************************************************************************)
\* the keys of the stage outcomes and branch results
ContractFields ==
    {"denoise_applied", "dereverb_applied", "vad_applied", "chunks", "diarization",
     "language"}

\* the transcribed text is under "text" in server.py and under
\* "transcription" in the job handlers; either name counts
HasText(r) == "text" \in DOMAIN r \/ "transcription" \in DOMAIN r

\* C20: every successful response of every pipeline variant contains the
\* denoise_applied, dereverb_applied and vad_applied flags, a chunks list
\* and a diarization list, alongside the text and language fields.
C20_ResponseHasContractFields ==
    (pc = "done" /\ response.kind = "ok")
        => /\ ContractFields \subseteq DOMAIN response
           /\ HasText(response)

(***************************************************************************)
(* The flat text of server.py                                              *)
(***************************************************************************)
\* " ".join(texts)
RECURSIVE JoinSpace(_)
JoinSpace(texts) ==
    IF texts = <<>> THEN <<>>
    ELSE IF Len(texts) = 1 THEN texts[1]
    ELSE JoinSpace(SubSeq(texts, 1, Len(texts) - 1)) \o <<" ">> \o texts[Len(texts)]

NoOuterBlank(s) == s = <<>> \/ (Head(s) # " " /\ s[Len(s)] # " ")

ServerSucceeded == variant \in ServerVariants /\ pc = "done" /\ response.kind = "ok"

\* C21 as stated: the text field of server.py equals the texts of the
\* engine's segments joined in their order with single-space separators.
C21_TextIsJoin ==
    ServerSucceeded => response.text = JoinSpace(loc.segments)

AllTextsStrippedJoin ==
    \A segments \in EngineSegments :
        /\ Strip(TranscriptionText(segments)) = Strip(JoinSpace(segments))
        /\ NoOuterBlank(JoinSpace(segments))
             => Strip(TranscriptionText(segments)) = JoinSpace(segments)

\* C21, amended: the text field of server.py equals the texts of the
\* engine's segments joined in their order with single-space separators,
\* with the blanks at the beginning and at the end of the whole removed; it
\* is the join itself whenever the join neither begins nor ends with a
\* blank, and the empty sequence gives the empty string.
C21_TextIsStrippedJoin ==
    /\ ServerSucceeded
         => /\ response.text = Strip(JoinSpace(loc.segments))
            /\ NoOuterBlank(JoinSpace(loc.segments))
                 => response.text = JoinSpace(loc.segments)
            /\ loc.segments = <<>> => response.text = <<>>
    /\ AllTextsStrippedJoin

\* two segments, the second one beginning with a blank: the text holds both
\* in their order and differs from the join by nothing but the outer blanks
C21_Witness ==
    /\ ServerSucceeded
    /\ Len(loc.segments) = 2
    /\ loc.segments[1] = <<"a", " ">> /\ loc.segments[2] = <<" ", "b">>
    /\ response.text = <<"a", " ", " ", " ", "b">>

(***************************************************************************)
(* Defaults of the kotoba handler                                          *)
(***************************************************************************)
Omitted(key) == key \notin job_input.given

Called(fn) == \E i \in 1..Len(calls) : calls[i].fn = fn

\* the request is past the step
After(steps) == pc \notin {"idle"} \cup steps

\* C22: in the kotoba handler a request that omits an optional field gets
\* the documented default: enable_denoise, enable_dereverberation and
\* enable_vad are true and the stage is attempted, enable_diarization is
\* false and apply_diarization is not called, the engine is called with
\* language "ja" and task "transcribe".
C22_KotobaDefaults ==
    (variant = "kotoba" /\ pc # "idle" /\ job_input.audio_base64)
        => /\ Omitted("enable_denoise")
                => /\ job_input.enable_denoise
                   /\ After({"saved"}) => Called("apply_deepfilter")
           /\ Omitted("enable_dereverberation")
                => /\ job_input.enable_dereverberation
                   /\ After({"saved", "denoised"}) => Called("apply_wpe")
           /\ Omitted("enable_vad")
                => /\ job_input.enable_vad
                   /\ After({"saved", "denoised", "dereverbed"}) => Called("apply_vad")
           /\ Omitted("enable_diarization")
                => /\ ~job_input.enable_diarization
                   /\ ~Called("apply_diarization")
           /\ \A i \in 1..Len(EngineCalls) :
                /\ Omitted("language") => EngineCalls[i].language = "ja"
                /\ Omitted("task") => EngineCalls[i].task = "transcribe"

\* a request with nothing but the audio went through the three stages and
\* the engine, and returned without the diarizer
C22_Witness ==
    /\ variant = "kotoba" /\ pc = "done" /\ response.kind = "ok"
    /\ job_input.given = {}
    /\ Called("apply_deepfilter") /\ Called("apply_wpe") /\ Called("apply_vad")
    /\ EngineCalls # <<>> /\ EngineCalls[1].language = "ja"
    /\ ~Called("apply_diarization")

(***************************************************************************)
(* The lazily loaded model of handler-simple.py                            *)
(***************************************************************************)
\* the engine calls of the request used the object the global pipe holds
UsesGlobalPipe ==
    \A i \in 1..Len(EngineCalls) :
        EngineCalls[i].model # NoPipe /\ EngineCalls[i].model = pipe

\* C23: in handler-simple.py the model is loaded lazily and at most once
\* per process: nothing is loaded before a request asks for the model, and
\* once load_model has succeeded the global pipe keeps the same object, no
\* later step calls transformers.pipeline again, and every request finds
\* the model loaded and runs on that object.
C23_LoadedAtMostOnce ==
    /\ [](variant = "simple"
            => /\ loads = 0 => pipe = NoPipe
               /\ UsesGlobalPipe)
    /\ [][(variant = "simple" /\ pipe # NoPipe)
            => /\ pipe' = pipe
               /\ loads' = loads
               /\ outcome'.load \in {outcome.load, "cached", "skip"}]_vars

\* a request found the model loaded by an earlier request and ran on it
C23_Witness ==
    /\ variant = "simple" /\ pc = "done" /\ response.kind = "ok"
    /\ outcome.load = "cached"
    /\ pipe # NoPipe /\ loads = pipe
    /\ EngineCalls # <<>> /\ EngineCalls[1].model = pipe

\* the step of handler-simple.py that calls load_model
CallsLoadModel == variant = "simple" /\ pc = "saved" /\ pc' = "finally"

\* C29: in handler-simple.py, when load_model fails on a request, the
\* request returns the error without calling the engine, its temp file is
\* removed, the global pipe stays None, and a request that calls load_model
\* while pipe is None calls transformers.pipeline again.
C29_FailedLoadNotCached ==
    /\ []((variant = "simple" /\ outcome.load = "raise")
            => /\ pipe = NoPipe
               /\ EngineCalls = <<>>
               /\ pc = "done"
                    => /\ response = ErrorResponse("load_model")
                       /\ outcome.cleanup = "ok"
                       /\ outcome.removed = <<loc.temp_audio_path>>
                       /\ ~Exists(fs, loc.temp_audio_path))
    /\ [][(CallsLoadModel /\ pipe = NoPipe)
            => /\ outcome'.load \in {"ok", "raise"}
               /\ loads' = Counted(loads)]_vars

\* the load failed in one request and failed again in a later one, which
\* returned the error with its temp file removed
C29_Witness ==
    /\ variant = "simple" /\ pc = "done"
    /\ outcome.load = "raise" /\ loads = 2 /\ pipe = NoPipe
    /\ response = ErrorResponse("load_model")
    /\ outcome.removed = <<loc.temp_audio_path>> /\ fs = {}

(***************************************************************************)
(* Stage outputs of failed stages                                          *)
(***************************************************************************)
\* the files the stages of the request wrote
StageOutputs == outcome.created \ {loc.temp_audio_path, loc.wav_file_path}

\* C24: when a stage created its output file and then failed, falling back
\* to its input, no stage output of the request exists any more once the
\* request has returned.
C24_BegunOutputPurged ==
    (pc = "done" /\ \E s \in Stages : outcome[s] = "partial")
        => \A p \in StageOutputs : ~Exists(fs, p)

(***************************************************************************)
(* The current artifact                                                    *)
(***************************************************************************)
\* the chain of the request is between its first stage and the engine
InChain ==
    \/ variant \in StagedVariants /\ pc \in {"saved", "denoised", "dereverbed", "vadded"}
    \/ variant \in ServerVariants /\ pc \in {"converted", "denoised", "dereverbed"}

AppliedFlags(l) == <<l.denoise_applied, l.dereverb_applied, l.vad_applied>>

\* this step is stage s failing
Fails(s) == outcome[s] = "skip" /\ outcome'[s] \in {"fail", "partial"}

\* C25: at every point of the chain one existing file is the current
\* artifact; a step in which a stage fails leaves the current artifact, its
\* content, the applied flags and the outcomes of the other stages as they
\* were; so when denoise succeeded and no later stage did, the engine gets
\* the denoised output and denoise_applied is reported true.
C25_FailureKeepsCurrent ==
    /\ [](InChain => /\ loc.audio_to_transcribe # NoPath
                     /\ Exists(fs, loc.audio_to_transcribe))
    /\ [][\A s \in Stages :
            Fails(s)
              => /\ loc'.audio_to_transcribe = loc.audio_to_transcribe
                 /\ Read(fs', loc.audio_to_transcribe) = Read(fs, loc.audio_to_transcribe)
                 /\ AppliedFlags(loc') = AppliedFlags(loc)
                 /\ \A t \in Stages \ {s} : outcome'[t] = outcome[t]]_vars
    /\ []((outcome.denoise = "ok" /\ outcome.dereverb # "ok" /\ outcome.vad # "ok"
            /\ (Failed("dereverb") \/ Failed("vad")))
            => /\ EngineInvoked
                    => /\ EngineCalls[1].arg = Chain[1].ret
                       /\ EngineCalls[1].content.applied = <<"denoise">>
               /\ (pc = "done" /\ response.kind = "ok") => response.denoise_applied)

\* denoise succeeded, dereverberation and VAD failed, and the engine was
\* given the denoised output
C25_Witness ==
    /\ variant = "kotoba" /\ pc = "done" /\ response.kind = "ok"
    /\ outcome.denoise = "ok" /\ outcome.dereverb = "partial" /\ outcome.vad = "fail"
    /\ loc.audio_to_transcribe = loc.denoised_path
    /\ loc.denoised_path # loc.temp_audio_path
    /\ EngineCalls[1].arg = loc.denoised_path
    /\ response.denoise_applied /\ ~response.dereverb_applied /\ ~response.vad_applied

(***************************************************************************)
(* The diarization capability of the kotoba handler                        *)
(***************************************************************************)
\* C26: in runpod-kotoba-whisper/handler.py, when HF_TOKEN is set and the
\* diarization model loaded at process start, diarization_pipeline is not
\* None, and a request with enable_diarization that got its transcription
\* has invoked the diarizer.
C26_KotobaDiarizerAvailable ==
    (variant = "kotoba" /\ startup = "loaded")
        => /\ diarization_pipeline
           /\ (pc = "done" /\ response.kind = "ok" /\ job_input.enable_diarization)
                => PipelineCalls # <<>>

(***************************************************************************)
(* Files are there while they are needed                                   *)
(***************************************************************************)
IsConsumerCall(c) == IsEngineCall(c) \/ IsDiarCall(c)

ConsumerCalls == SelectSeq(calls, IsConsumerCall)

\* this step removes a file
Removes == \E p \in Paths(fs) : ~Exists(fs', p)

\* C27: no artifact is deleted while it is still needed: the file given to
\* the transcription engine and the file given to the diarizer exist when
\* they are called, no removal has happened before the cleanup step, the
\* steps of the engine (with its iteration over the segments) and of the
\* diarizer remove nothing, and a step that removes a file is the last step
\* of its request.
C27_NothingDeletedWhileNeeded ==
    /\ [](/\ \A i \in 1..Len(ConsumerCalls) : ConsumerCalls[i].content # Missing
          /\ outcome.cleanup = "skip" => outcome.removed = <<>>
          /\ pc \notin {"idle", "done"} => \A p \in outcome.created : Exists(fs, p))
    /\ [][Removes => pc' \in {"done", "idle"}]_vars

\* the diarizer ran on the original after the engine ran on a stage output,
\* and both files were removed afterwards
C27_Witness ==
    /\ variant = "parakeet" /\ pc = "done" /\ response.kind = "ok"
    /\ PipelineCalls # <<>> /\ PipelineCalls[1].content = RawUpload
    /\ EngineCalls[1].arg # loc.temp_audio_path
    /\ Len(outcome.removed) >= 2 /\ fs = {}

(***************************************************************************)
(* Requests without audio                                                  *)
(***************************************************************************)
\* the request was refused before anything was done for it
RefusedUntouched ==
    /\ pc = "done"
    /\ response = ErrorResponse("No audio_base64 provided")
    /\ outcome.created = {} /\ loc.temp_audio_path = NoPath
    /\ calls = <<>>
    /\ outcome.load = "skip" /\ engine = "none"

\* C28: in the job handlers a request whose audio_base64 is missing or
\* empty returns the error "No audio_base64 provided" and has created no
\* temp file and invoked no stage, no model load and no engine.
C28_NoAudioRefused ==
    (variant \in JobHandlers /\ pc # "idle" /\ ~job_input.audio_base64)
        => RefusedUntouched

(***************************************************************************)
(* The chunks of the kotoba handler                                        *)
(***************************************************************************)
\* the engine's own timestamps are in order where both are given
EngineChunkOrdered(chunk) ==
    (chunk.timestamp[1] # NoneTs /\ chunk.timestamp[2] # NoneTs)
        => chunk.timestamp[1] <= chunk.timestamp[2]

\* the returned chunks are the engine's chunks, one for one and in order
ChunksFollowEngine(returned, given) ==
    /\ Len(returned) = Len(given)
    /\ \A i \in 1..Len(given) : returned[i].text = given[i].text

\* C30: in the kotoba handler the returned chunks have the length and the
\* order of the engine's chunks, and every returned chunk has start <= end
\* when the engine's timestamps that are not missing are in order, a chunk
\* with a missing (None) start or end included.
C30_ChunksOrdered ==
    (variant = "kotoba" /\ pc = "done" /\ response.kind = "ok")
        => /\ ChunksFollowEngine(response.chunks, loc.result_chunks)
           /\ \A i \in 1..Len(response.chunks) :
                EngineChunkOrdered(loc.result_chunks[i])
                    => response.chunks[i].start <= response.chunks[i].end

(***************************************************************************)
(* scribe-v2-main/realtime_mic.py: main                                    *)
(*                                                                         *)
(* The process has connected, registered its three callbacks and opened   *)
(* the microphone stream; pc is the position in main.  stream.read blocks  *)
(* the event loop, so the callbacks run only while main waits in an await  *)
(* (send, sleep, commit, close).  SIGINT can arrive at any time.  A text   *)
(* is a sequence of tokens, as in server.py; a timestamp is the ordinal    *)
(* of the event.                                                           *)
(***************************************************************************)
MaxChunks == 2

MaxEvents == 2

Texts == {<<>>, <<"a">>, <<"b">>}

RealtimeEvents == {"partial_transcript", "committed_transcript", "error"}

Events ==
    {[type |-> "partial_transcript", text |-> t] : t \in {<<>>, <<"a">>}}
        \cup {[type |-> "committed_transcript", text |-> t] : t \in Texts}
        \cup {[type |-> "error", text |-> <<"x">>]}

\* the variables of the handlers, which these programs do not have
NoHandler ==
    /\ startup = "no_token"
    /\ job_input = NoInput
    /\ leaked = FALSE
    /\ pipe = NoPipe
    /\ loads = 0
    /\ response = NoResponse
    /\ outcome = NoOutcome
    /\ conv = "none"
    /\ engine = "none"
    /\ inside = "none"
    /\ suspended = IdleFrame

handler == <<startup, job_input, leaked, pipe, loads, response, outcome, conv, engine,
             inside, suspended>>

MicInit ==
    /\ variant = "realtime_mic"
    /\ pc = "while"
    /\ running = TRUE
    /\ all_transcripts = <<>>
    /\ final_texts = <<>>
    /\ received = <<>>
    /\ loc = [current_partial |-> <<>>, chunks |-> 0]
    /\ calls = <<>>
    /\ pending = NoResponse
    /\ fs = {}
    /\ NoHandler

\* a call into PyAudio or the connection, with the value `running` had
MicCall(fn, raised) == [fn |-> fn, raised |-> raised, running |-> running]

signal_handler ==
    /\ variant = "realtime_mic" /\ pc # "exited"
    /\ running' = FALSE
    /\ UNCHANGED <<variant, pc, fs, loc, pending, calls, all_transcripts, final_texts,
                   received, handler>>

\* the callback as it would be if it kept the partial texts as well, the
\* way test_realtime_stt.py does
on_partial_Collects(data) ==
    [final_texts |-> final_texts,
     all_transcripts |->
         IF data.text # <<>>
         THEN Append(all_transcripts,
                     [text |-> data.text, timestamp |-> Len(received) + 1,
                      is_final |-> FALSE])
         ELSE all_transcripts,
     current_partial |-> IF data.text # <<>> THEN data.text ELSE loc.current_partial]

on_partial(data) ==
    [final_texts |-> final_texts,
     all_transcripts |-> all_transcripts,
     current_partial |-> IF data.text # <<>> THEN data.text ELSE loc.current_partial]

on_committed(data) ==
    IF data.text # <<>>
    THEN [final_texts |-> Append(final_texts, data.text),
          all_transcripts |->
              Append(all_transcripts,
                     [text |-> data.text, timestamp |-> Len(received) + 1,
                      is_final |-> TRUE]),
          current_partial |-> <<>>]
    ELSE [final_texts |-> final_texts, all_transcripts |-> all_transcripts,
          current_partial |-> loc.current_partial]

on_error(data) ==
    [final_texts |-> final_texts, all_transcripts |-> all_transcripts,
     current_partial |-> loc.current_partial]

Callback(data) ==
    CASE data.type = "partial_transcript" -> on_partial(data)
      [] data.type = "committed_transcript" -> on_committed(data)
      [] data.type = "error" -> on_error(data)

\* main waits in an await of the connection or of asyncio.sleep
MicAwaits == pc \in {"send", "sleep", "commit", "drain", "close"}

\* the connection delivers an event and the event loop runs its callback
MicEvent ==
    /\ variant = "realtime_mic" /\ MicAwaits
    /\ Len(received) < MaxEvents
    /\ \E data \in Events :
         /\ received' = Append(received, data)
         /\ final_texts' = Callback(data).final_texts
         /\ all_transcripts' = Callback(data).all_transcripts
         /\ loc' = [loc EXCEPT !.current_partial = Callback(data).current_partial]
    /\ UNCHANGED <<variant, pc, fs, pending, calls, running, handler>>

\* the loop as it would be with `while True:`
MicWhile_Forever ==
    /\ variant = "realtime_mic" /\ pc = "while"
    /\ IF loc.chunks < MaxChunks THEN pc' = "read" ELSE pc' = "finally"
    /\ UNCHANGED <<variant, fs, loc, pending, calls, scribe, handler>>

\* while running:
MicWhile ==
    /\ variant = "realtime_mic" /\ pc = "while"
    /\ IF running THEN loc.chunks < MaxChunks /\ pc' = "read" ELSE pc' = "finally"
    /\ UNCHANGED <<variant, fs, loc, pending, calls, scribe, handler>>

\* data = stream.read(...); an exception is printed and the loop continues
MicRead ==
    /\ variant = "realtime_mic" /\ pc = "read"
    /\ loc' = [loc EXCEPT !.chunks = @ + 1]
    /\ \E raised \in BOOLEAN : pc' = IF raised THEN "while" ELSE "send"
    /\ UNCHANGED <<variant, fs, pending, calls, scribe, handler>>

\* await connection.send(...); an exception breaks the loop
MicSend ==
    /\ variant = "realtime_mic" /\ pc = "send"
    /\ \E raised \in BOOLEAN :
         /\ calls' = Append(calls, MicCall("connection.send", raised))
         /\ pc' = IF raised THEN "finally" ELSE "sleep"
    /\ UNCHANGED <<variant, fs, loc, pending, scribe, handler>>

\* await asyncio.sleep(0.01); what is raised here leaves the loop through
\* the outer except clause
MicSleep ==
    /\ variant = "realtime_mic" /\ pc = "sleep"
    /\ \E raised \in BOOLEAN :
         /\ pc' = IF raised THEN "finally" ELSE "while"
         /\ pending' = IF raised THEN [kind |-> "exception"] ELSE pending
    /\ UNCHANGED <<variant, fs, loc, calls, scribe, handler>>

\* finally: stream.stop_stream(); stream.close(); p.terminate()
MicFinally ==
    /\ variant = "realtime_mic" /\ pc = "finally"
    /\ calls' = calls \o <<MicCall("stream.stop_stream", FALSE),
                           MicCall("stream.close", FALSE),
                           MicCall("p.terminate", FALSE)>>
    /\ pc' = "commit"
    /\ UNCHANGED <<variant, fs, loc, pending, scribe, handler>>

\* try: await connection.commit() ... except: pass
MicCommit ==
    /\ variant = "realtime_mic" /\ pc = "commit"
    /\ \E raised \in BOOLEAN :
         /\ calls' = Append(calls, MicCall("connection.commit", raised))
         /\ pc' = IF raised THEN "save" ELSE "drain"
    /\ UNCHANGED <<variant, fs, loc, pending, scribe, handler>>

\* await asyncio.sleep(1)
MicDrain ==
    /\ variant = "realtime_mic" /\ pc = "drain"
    /\ pc' = "close"
    /\ UNCHANGED <<variant, fs, loc, pending, calls, scribe, handler>>

\* await connection.close() ... except: pass
MicClose ==
    /\ variant = "realtime_mic" /\ pc = "close"
    /\ \E raised \in BOOLEAN :
         calls' = Append(calls, MicCall("connection.close", raised))
    /\ pc' = "save"
    /\ UNCHANGED <<variant, fs, loc, pending, scribe, handler>>

MicJsonPath == <<"results", "_mic_realtime", ".json">>

\* json_data of save_results
save_results ==
    [full_text |-> JoinSpace(final_texts), transcripts |-> all_transcripts]

\* if final_texts: save_results()
MicSave ==
    /\ variant = "realtime_mic" /\ pc = "save"
    /\ fs' = IF final_texts # <<>> THEN Write(fs, MicJsonPath, save_results) ELSE fs
    /\ pc' = "exited"
    /\ UNCHANGED <<variant, loc, pending, calls, scribe, handler>>

MicProgram ==
    \/ MicWhile \/ MicRead \/ MicSend \/ MicSleep \/ MicFinally
    \/ MicCommit \/ MicDrain \/ MicClose \/ MicSave

NextMic ==
    \/ MicWhile \/ MicRead \/ MicSend \/ MicSleep \/ MicFinally
    \/ MicCommit \/ MicDrain \/ MicClose \/ MicSave
    \/ signal_handler \/ MicEvent

SpecMic == MicInit /\ [][NextMic]_vars

(***************************************************************************)
(* realtime_mic.py under the assumption that every call into PyAudio, the  *)
(* connection and asyncio.sleep returns or raises: main takes its next     *)
(* step.  Nothing is assumed about SIGINT or about the events.             *)
(***************************************************************************)
SpecMicFair == MicInit /\ [][NextMic]_vars /\ WF_vars(MicProgram)

(***************************************************************************)
(* realtime_mic.py: stopping and cleaning up                               *)
(***************************************************************************)
IsSend(c) == c.fn = "connection.send"

\* the calls other than the sends, by name
RECURSIVE CleanupFns(_)
CleanupFns(cs) ==
    IF cs = <<>> THEN <<>>
    ELSE IF IsSend(Head(cs)) THEN CleanupFns(Tail(cs))
    ELSE <<Head(cs).fn>> \o CleanupFns(Tail(cs))

CommitRaised ==
    \E i \in DOMAIN calls : calls[i].fn = "connection.commit" /\ calls[i].raised

MicLoopLeft == pc \in {"finally", "commit", "drain", "close", "save", "exited"}

\* a chunk sent after `running` became False is the last chunk sent
C31_AtMostChunkInProgress ==
    \A i, j \in DOMAIN calls :
        (i < j /\ IsSend(calls[i]) /\ IsSend(calls[j])) => calls[i].running

\* past the cleanup the stream was stopped and closed and PyAudio was
\* terminated, in this order and after the last send; then the commit was
\* called, and the close of the connection after a commit that returned
C31_CleanedUp ==
    (variant = "realtime_mic" /\ pc \in {"save", "exited"}) =>
        /\ \A i, j \in DOMAIN calls : (IsSend(calls[j]) /\ ~IsSend(calls[i])) => j < i
        /\ CleanupFns(calls) =
              IF CommitRaised
              THEN <<"stream.stop_stream", "stream.close", "p.terminate",
                     "connection.commit">>
              ELSE <<"stream.stop_stream", "stream.close", "p.terminate",
                     "connection.commit", "connection.close">>

RECURSIVE CommittedTexts(_)
CommittedTexts(evts) ==
    IF evts = <<>> THEN <<>>
    ELSE IF Head(evts).type = "committed_transcript" /\ Head(evts).text # <<>>
         THEN <<Head(evts).text>> \o CommittedTexts(Tail(evts))
         ELSE CommittedTexts(Tail(evts))

MicSaved == Exists(fs, MicJsonPath)

C32_SameTexts ==
    variant = "realtime_mic" =>
        /\ Len(final_texts) = Len(all_transcripts)
        /\ \A i \in DOMAIN final_texts : all_transcripts[i].text = final_texts[i]
        /\ final_texts = CommittedTexts(received)

C32_SavedIffCommitted ==
    variant = "realtime_mic" =>
        /\ pc = "exited" => (MicSaved <=> CommittedTexts(received) # <<>>)
        /\ pc # "exited" => ~MicSaved

C32_OthersChangeNothing ==
    (variant = "realtime_mic" /\ received' # received
        /\ received'[Len(received')].type \in {"partial_transcript", "error"})
    => UNCHANGED <<final_texts, all_transcripts>>

None == "None"

AudioPath == <<"audio_16k", ".wav">>

AudioFiles == {[i \in 1..n |-> i] : n \in 0..MaxChunks}

RealtimeInit ==
    /\ variant = "test_realtime_stt"
    /\ pc = "open"
    /\ fs \in {{<<AudioPath, file>>} : file \in AudioFiles} \cup {{}}
    /\ running = TRUE
    /\ all_transcripts = <<>>
    /\ final_texts = <<>>
    /\ received = <<>>
    /\ loc = [f |-> 0, chunk |-> 0, chunk_count |-> 0]
    /\ calls = <<>>
    /\ pending = NoResponse
    /\ NoHandler

RealtimeCall(fn, arg, raised) == [fn |-> fn, arg |-> arg, raised |-> raised]

RealtimeTranscript(data, is_final) ==
    [text |-> data.text, is_final |-> is_final,
     speaker_id |-> Get(data, "speaker_id", None)]

RealtimeOnPartial(data) ==
    IF data.text # <<>>
    THEN Append(all_transcripts, RealtimeTranscript(data, FALSE))
    ELSE all_transcripts

RealtimeOnCommitted(data) ==
    IF data.text # <<>>
    THEN Append(all_transcripts, RealtimeTranscript(data, TRUE))
    ELSE all_transcripts

RealtimeOnError(data) == all_transcripts

RealtimeCallback(data) ==
    CASE data.type = "partial_transcript" -> RealtimeOnPartial(data)
      [] data.type = "committed_transcript" -> RealtimeOnCommitted(data)
      [] data.type = "error" -> RealtimeOnError(data)

\* transcribe_realtime waits in an await of the connection or of asyncio.sleep
RealtimeAwaits == pc \in {"send", "sleep", "commit", "drain", "finally"}

RealtimeEvent ==
    /\ variant = "test_realtime_stt" /\ RealtimeAwaits
    /\ Len(received) < MaxEvents
    /\ \E data \in Events :
         /\ received' = Append(received, data)
         /\ all_transcripts' = RealtimeCallback(data)
    /\ UNCHANGED <<variant, pc, fs, loc, pending, calls, running, final_texts, handler>>

\* with open(file_path, 'rb') as f: f.seek(44)
RealtimeOpen ==
    /\ variant = "test_realtime_stt" /\ pc = "open"
    /\ IF Exists(fs, AudioPath)
       THEN pc' = "read" /\ UNCHANGED pending
       ELSE pc' = "finally" /\ pending' = [kind |-> "exception"]
    /\ UNCHANGED <<variant, fs, loc, calls, scribe, handler>>

\* the loop as it would be if it took the chunks from the end of the file
RealtimeRead_FromEnd ==
    /\ variant = "test_realtime_stt" /\ pc = "read"
    /\ LET file == Read(fs, AudioPath) IN
         IF loc.f < Len(file)
         THEN /\ loc' = [loc EXCEPT !.chunk = file[Len(file) - loc.f], !.f = @ + 1]
              /\ pc' = "send"
         ELSE /\ pc' = "commit"
              /\ UNCHANGED loc
    /\ UNCHANGED <<variant, fs, pending, calls, scribe, handler>>

\* chunk = f.read(chunk_size); if not chunk: break
RealtimeRead ==
    /\ variant = "test_realtime_stt" /\ pc = "read"
    /\ LET file == Read(fs, AudioPath) IN
         IF loc.f < Len(file)
         THEN /\ loc' = [loc EXCEPT !.chunk = file[loc.f + 1], !.f = @ + 1]
              /\ pc' = "send"
         ELSE /\ pc' = "commit"
              /\ UNCHANGED loc
    /\ UNCHANGED <<variant, fs, pending, calls, scribe, handler>>

\* await connection.send(...); chunk_count += 1
RealtimeSend ==
    /\ variant = "test_realtime_stt" /\ pc = "send"
    /\ \E raised \in BOOLEAN :
         /\ calls' = Append(calls, RealtimeCall("connection.send", loc.chunk, raised))
         /\ IF raised
            THEN pc' = "finally" /\ pending' = [kind |-> "exception"] /\ UNCHANGED loc
            ELSE /\ pc' = "sleep"
                 /\ loc' = [loc EXCEPT !.chunk_count = @ + 1]
                 /\ UNCHANGED pending
    /\ UNCHANGED <<variant, fs, scribe, handler>>

\* await asyncio.sleep(chunk_duration_ms / 1000 / 2)
RealtimeSleep ==
    /\ variant = "test_realtime_stt" /\ pc = "sleep"
    /\ pc' = "read"
    /\ UNCHANGED <<variant, fs, loc, pending, calls, scribe, handler>>

\* await connection.commit()
RealtimeCommit ==
    /\ variant = "test_realtime_stt" /\ pc = "commit"
    /\ \E raised \in BOOLEAN :
         /\ calls' = Append(calls, RealtimeCall("connection.commit", 0, raised))
         /\ IF raised
            THEN pc' = "finally" /\ pending' = [kind |-> "exception"]
            ELSE pc' = "drain" /\ UNCHANGED pending
    /\ UNCHANGED <<variant, fs, loc, scribe, handler>>

\* await asyncio.sleep(3)
RealtimeDrain ==
    /\ variant = "test_realtime_stt" /\ pc = "drain"
    /\ pc' = "finally"
    /\ UNCHANGED <<variant, fs, loc, pending, calls, scribe, handler>>

\* finally: await connection.close(); return {...} unless an exception is
\* in flight or the close raises
RealtimeFinally ==
    /\ variant = "test_realtime_stt" /\ pc = "finally"
    /\ \E raised \in BOOLEAN :
         /\ calls' = Append(calls, RealtimeCall("connection.close", 0, raised))
         /\ pending' = IF raised THEN [kind |-> "exception"] ELSE pending
         /\ IF raised \/ pending.kind = "exception"
            THEN pc' = "raised"
            ELSE pc' = "returned"
    /\ UNCHANGED <<variant, fs, loc, scribe, handler>>

\* [t['text'] for t in transcripts if t.get('is_final', False)]
RECURSIVE FinalTexts(_)
FinalTexts(transcripts) ==
    IF transcripts = <<>> THEN <<>>
    ELSE (IF Head(transcripts).is_final THEN <<Head(transcripts).text>> ELSE <<>>)
           \o FinalTexts(Tail(transcripts))

\* [t['text'] for t in transcripts]
AllTexts(transcripts) == [i \in DOMAIN transcripts |-> transcripts[i].text]

\* the speakers dict of analyze_realtime_results
SpeakerCounts(transcripts) ==
    LET ids == {transcripts[i].speaker_id : i \in DOMAIN transcripts} \ {None} IN
    [s \in ids |->
        [count |-> Cardinality({i \in DOMAIN transcripts : transcripts[i].speaker_id = s}),
         texts |-> AllTexts(SelectSeq(transcripts, LAMBDA t : t.speaker_id = s))]]

\* the function as it would be if it always joined every transcript
analyze_realtime_results_AllTexts(results) ==
    [full_text |-> JoinSpace(AllTexts(results.transcripts)),
     transcript_count |-> Len(results.transcripts),
     final_count |-> Len(FinalTexts(results.transcripts)),
     speakers |-> SpeakerCounts(results.transcripts),
     has_speaker_info |-> DOMAIN SpeakerCounts(results.transcripts) # {}]

analyze_realtime_results(results) ==
    [full_text |-> IF FinalTexts(results.transcripts) # <<>>
                   THEN JoinSpace(FinalTexts(results.transcripts))
                   ELSE JoinSpace(AllTexts(results.transcripts)),
     transcript_count |-> Len(results.transcripts),
     final_count |-> Len(FinalTexts(results.transcripts)),
     speakers |-> SpeakerCounts(results.transcripts),
     has_speaker_info |-> DOMAIN SpeakerCounts(results.transcripts) # {}]

\* the dict transcribe_realtime returns
RealtimeResults == [transcripts |-> all_transcripts, words |-> <<>>]

\* main: results = await transcribe_realtime(audio_path);
\*       analysis = analyze_realtime_results(results)
RealtimeAnalyze ==
    /\ variant = "test_realtime_stt" /\ pc = "returned"
    /\ loc' = [results |-> RealtimeResults,
               analysis |-> analyze_realtime_results(RealtimeResults)]
    /\ pc' = "analyzed"
    /\ UNCHANGED <<variant, fs, pending, calls, scribe, handler>>

NextRealtime ==
    \/ RealtimeOpen \/ RealtimeRead \/ RealtimeSend \/ RealtimeSleep
    \/ RealtimeCommit \/ RealtimeDrain \/ RealtimeFinally \/ RealtimeAnalyze
    \/ RealtimeEvent

SpecRealtime == RealtimeInit /\ [][NextRealtime]_vars

(***************************************************************************)
(* test_realtime_stt.py: order of the calls on the connection              *)
(***************************************************************************)
RealtimeSends == SelectSeq(calls, IsSend)

IsCommit(c) == c.fn = "connection.commit"

IsClose(c) == c.fn = "connection.close"

RealtimeLeft == pc \in {"raised", "returned", "analyzed"}

\* the i-th send carries the i-th chunk of the file
C33_InFileOrder ==
    variant = "test_realtime_stt" =>
        \A i \in DOMAIN RealtimeSends :
            /\ Exists(fs, AudioPath)
            /\ i <= Len(Read(fs, AudioPath))
            /\ RealtimeSends[i].arg = Read(fs, AudioPath)[i]

\* a commit comes after every send, and then every chunk of the file was
\* sent without an error
C33_CommitAfterLastChunk ==
    variant = "test_realtime_stt" =>
        \A i \in DOMAIN calls :
            IsCommit(calls[i]) =>
                /\ \A j \in DOMAIN calls : IsSend(calls[j]) => (j < i /\ ~calls[j].raised)
                /\ Len(RealtimeSends) = Len(Read(fs, AudioPath))

\* no close while the function runs; exactly one, as the last call, once
\* the function is left
C33_ClosedOnce ==
    variant = "test_realtime_stt" =>
        LET closes == {i \in DOMAIN calls : IsClose(calls[i])} IN
        IF RealtimeLeft
        THEN closes = {Len(calls)} /\ calls # <<>>
        ELSE closes = {}

\* C33: transcribe_realtime sends the chunks in the order of the file,
\* calls commit only after the last chunk was sent, never before or between
\* chunks, and closes the connection exactly once on every way out, also
\* when a send or the commit raised.
C33_OrderedAndClosed ==
    C33_InFileOrder /\ C33_CommitAfterLastChunk /\ C33_ClosedOnce

\* the second send raised: no commit, one close, the exception goes on
C33_Witness ==
    /\ variant = "test_realtime_stt" /\ pc = "raised"
    /\ Len(RealtimeSends) = 2 /\ RealtimeSends[2].raised
    /\ \E i \in DOMAIN calls : IsClose(calls[i])

(***************************************************************************)
(* test_realtime_stt.py: the text of the analysis                          *)
(***************************************************************************)
\* the non-empty texts of the partial and committed events, in the order
\* of arrival
RECURSIVE ArrivedTexts(_)
ArrivedTexts(evts) ==
    IF evts = <<>> THEN <<>>
    ELSE IF Head(evts).type # "error" /\ Head(evts).text # <<>>
         THEN <<Head(evts).text>> \o ArrivedTexts(Tail(evts))
         ELSE ArrivedTexts(Tail(evts))

\* C34: analyze_realtime_results joins the final (committed) transcripts
\* only, in the order of arrival, whenever there is one, and joins all
\* transcripts only when none is final; final_count is at most
\* transcript_count.
C34_FullTextFromFinals ==
    (variant = "test_realtime_stt" /\ pc = "analyzed") =>
        /\ loc.analysis.full_text =
              IF CommittedTexts(received) # <<>>
              THEN JoinSpace(CommittedTexts(received))
              ELSE JoinSpace(ArrivedTexts(received))
        /\ loc.analysis.final_count = Len(CommittedTexts(received))
        /\ loc.analysis.transcript_count = Len(ArrivedTexts(received))
        /\ loc.analysis.final_count <= loc.analysis.transcript_count

\* a session with a partial transcript and then a final one was analysed
C34_Witness ==
    /\ variant = "test_realtime_stt" /\ pc = "analyzed"
    /\ loc.analysis.final_count = 1 /\ loc.analysis.transcript_count = 2
    /\ loc.results.transcripts[1].is_final = FALSE

(***************************************************************************)
(* scribe-v2-main/test_stt.py: analyze_speakers                            *)
(*                                                                         *)
(* result.words is any list of up to MaxWords words; a word has a          *)
(* speaker_id ("speaker_0", "speaker_1" or None) or no such attribute.     *)
(* The i-th word starts at i - 1 and ends at i.  pc is the position in     *)
(* the function, loc holds its local variables.                            *)
(***************************************************************************)
MaxWords == 3

SpeakerIds == {"speaker_0", "speaker_1", None}

Word(i, s) ==
    IF s = "absent"
    THEN [text |-> <<"w">>, start |-> i - 1, end |-> i]
    ELSE [text |-> <<"w">>, start |-> i - 1, end |-> i, speaker_id |-> s]

ResultWords ==
    UNION {{[i \in 1..n |-> Word(i, ss[i])] : ss \in [1..n -> SpeakerIds \cup {"absent"}]} :
           n \in 0..MaxWords}

EmptyDict == [k \in {} |-> 0]

SttInit ==
    /\ variant = "test_stt"
    /\ pc = "analyze"
    /\ loc \in {[words |-> ws, i |-> 0, speakers |-> EmptyDict, segments |-> <<>>,
                 current_speaker |-> None, current_segment_words |-> <<>>,
                 segment_start |-> 0, analysis |-> EmptyDict] : ws \in ResultWords}
    /\ fs = {}
    /\ calls = <<>>
    /\ pending = NoResponse
    /\ running = TRUE
    /\ all_transcripts = <<>>
    /\ final_texts = <<>>
    /\ received = <<>>
    /\ NoHandler

\* ''.join([w.text for w in ws])
RECURSIVE JoinWords(_)
JoinWords(ws) == IF ws = <<>> THEN <<>> ELSE Head(ws).text \o JoinWords(Tail(ws))

\* the segment the function appends for the words collected so far
StoredSegment(l) ==
    [speaker |-> l.current_speaker,
     start |-> l.segment_start,
     end |-> l.current_segment_words[Len(l.current_segment_words)].end,
     text |-> JoinWords(l.current_segment_words),
     word_count |-> Len(l.current_segment_words)]

\* if current_speaker is not None and current_segment_words: segments.append(...)
SegmentsAfter(l) ==
    IF l.current_speaker # None /\ l.current_segment_words # <<>>
    THEN Append(l.segments, StoredSegment(l))
    ELSE l.segments

\* speakers[speaker_id]['total_words'] += 1, with the entry made if missing
CountWord(speakers, speaker_id) ==
    [s \in DOMAIN speakers \cup {speaker_id} |->
        LET old == IF s \in DOMAIN speakers THEN speakers[s]
                   ELSE [total_words |-> 0, total_duration |-> 0, segment_count |-> 0]
        IN IF s = speaker_id THEN [old EXCEPT !.total_words = @ + 1] ELSE old]

\* for seg in segments: if speaker in speakers: total_duration += ...; segment_count += 1
RECURSIVE CountSegments(_, _)
CountSegments(speakers, segments) ==
    IF segments = <<>> THEN speakers
    ELSE LET seg == Head(segments)
             counted ==
                 IF seg.speaker \in DOMAIN speakers
                 THEN [speakers EXCEPT
                          ![seg.speaker].total_duration = @ + (seg.end - seg.start),
                          ![seg.speaker].segment_count = @ + 1]
                 ELSE speakers
         IN CountSegments(counted, Tail(segments))

\* if not hasattr(result, 'words') or not result.words: return {}
SttEmpty ==
    /\ variant = "test_stt" /\ pc = "analyze"
    /\ loc.words = <<>>
    /\ loc' = [loc EXCEPT !.analysis = EmptyDict]
    /\ pc' = "analyzed"
    /\ UNCHANGED <<variant, fs, pending, calls, scribe, handler>>

\* one iteration of `for word in result.words`
SttWord ==
    /\ variant = "test_stt" /\ pc = "analyze"
    /\ loc.i < Len(loc.words)
    /\ LET word == loc.words[loc.i + 1]
           speaker_id == Get(word, "speaker_id", None)
       IN loc' =
            IF speaker_id # loc.current_speaker
            THEN [loc EXCEPT !.i = @ + 1,
                             !.segments = SegmentsAfter(loc),
                             !.current_speaker = speaker_id,
                             !.current_segment_words = <<word>>,
                             !.segment_start = word.start,
                             !.speakers = CountWord(@, speaker_id)]
            ELSE [loc EXCEPT !.i = @ + 1,
                             !.current_segment_words = Append(@, word),
                             !.speakers = CountWord(@, speaker_id)]
    /\ UNCHANGED <<variant, pc, fs, pending, calls, scribe, handler>>

\* the last segment, the totals per speaker, and the return
SttReturn ==
    /\ variant = "test_stt" /\ pc = "analyze"
    /\ loc.words # <<>> /\ loc.i = Len(loc.words)
    /\ LET segments == SegmentsAfter(loc)
           speakers == CountSegments(loc.speakers, segments)
       IN loc' = [loc EXCEPT !.segments = segments,
                             !.speakers = speakers,
                             !.analysis = [speakers |-> speakers, segments |-> segments]]
    /\ pc' = "analyzed"
    /\ UNCHANGED <<variant, fs, pending, calls, scribe, handler>>

NextStt == SttEmpty \/ SttWord \/ SttReturn

SpecStt == SttInit /\ [][NextStt]_vars

(***************************************************************************)
(* test_stt.py: the segments are a partition of the words                  *)
(***************************************************************************)
RECURSIVE SumWordCount(_)
SumWordCount(segments) ==
    IF segments = <<>> THEN 0
    ELSE Head(segments).word_count + SumWordCount(Tail(segments))

RECURSIVE SumTotalWords(_, _)
SumTotalWords(speakers, ids) ==
    IF ids = {} THEN 0
    ELSE LET s == CHOOSE x \in ids : TRUE
         IN speakers[s].total_words + SumTotalWords(speakers, ids \ {s})

RECURSIVE SumSegmentCount(_, _)
SumSegmentCount(speakers, ids) ==
    IF ids = {} THEN 0
    ELSE LET s == CHOOSE x \in ids : TRUE
         IN speakers[s].segment_count + SumSegmentCount(speakers, ids \ {s})

\* the speaker of each word, as the segments give it: each segment's
\* speaker repeated word_count times
RECURSIVE SpeakersOfSegments(_)
SpeakersOfSegments(segments) ==
    IF segments = <<>> THEN <<>>
    ELSE [i \in 1..Head(segments).word_count |-> Head(segments).speaker]
           \o SpeakersOfSegments(Tail(segments))

SpeakersOfWords(ws) == [i \in DOMAIN ws |-> Get(ws[i], "speaker_id", None)]

SttAnalyzed == variant = "test_stt" /\ pc = "analyzed" /\ loc.words # <<>>

\* C35: analyze_speakers cuts the word list into the maximal runs of
\* consecutive words with the same speaker_id, in order, also when a
\* speaker_id is missing: the word_count of the segments add up to the
\* number of words, the total_words of the speakers add up to the number
\* of words, and the segment_count of the speakers add up to the number of
\* segments.
C35_SegmentsPartitionWords ==
    SttAnalyzed =>
        LET a == loc.analysis IN
        /\ SpeakersOfSegments(a.segments) = SpeakersOfWords(loc.words)
        /\ \A i \in 1..(Len(a.segments) - 1) : a.segments[i].speaker # a.segments[i + 1].speaker
        /\ SumWordCount(a.segments) = Len(loc.words)
        /\ SumTotalWords(a.speakers, DOMAIN a.speakers) = Len(loc.words)
        /\ SumSegmentCount(a.speakers, DOMAIN a.speakers) = Len(a.segments)

====
